---- MODULE Spec2Model ----
(***************************************************************************)
(* A model of the ulesl tree-walking virtual machine (src/src/vm): the    *)
(* two-level scope, the Variant value model, the shared storage cells and *)
(* the evaluation of statements and expressions.                           *)
(*                                                                         *)
(* The evaluator of the source is a set of mutually recursive methods on   *)
(* Vm; each becomes a recursive operator that takes the machine state and  *)
(* returns the state after it together with its result.  One action,       *)
(* ExecStatement, is one iteration of the driver loop: it hands one parsed *)
(* statement to exec_package.                                              *)
(***************************************************************************)
EXTENDS Integers, Sequences, FiniteSets, TLC

VARIABLES
    vm,      \* the Vm object: global_scope, stack_scope, builtins, flags
    cells,   \* the storage cells (StoredValue = Arc<Mutex<VmVariant>>), by handle
    stdout,  \* what the builtins have printed
    trace,   \* history: what the last exec_package call evaluated, in order
    last,    \* history: the statement of the last exec_package call (0: none)
    result,  \* history: what the last exec_package call returned
    halted,  \* the process has ended (end of input, abort) or hangs
    steps,   \* number of statements executed so far
    interactive,  \* main: the input is a terminal
    parser,  \* the Parser object: its Lexer (with the input not yet read) and its cursor
    parsed   \* history: what the last call of the lexer or of the parser returned

vars == <<vm, cells, stdout, trace, last, result, halted, steps, interactive, parser, parsed>>

----------------------------------------------------------------------------
(* Bounds of the model *)

\* Statements the driver executes in one run.
MaxSteps == 3

\* Width of the machine integer in the model (i64 in the source, scaled).
IntBits == 8

\* Characters between the quotes of a string literal.
MaxStringLen == 3

\* Pieces of text (words, operators, ...) in an input of the lexer.
MaxPieces == 2

\* The number of calls on the token cursor of the parser in a run
MaxOps == 6

\* Bytes in an input of the lexer that is made of single bytes.
MaxChars == 4

IntMin == -(2 ^ (IntBits - 1))
IntMax == (2 ^ (IntBits - 1)) - 1

----------------------------------------------------------------------------
(* common.rs: Location *)

Location_new_z(line_z, col_z, file) ==
    [line_z |-> line_z, col_z |-> col_z, file |-> file]

\* The placeholder location of the VM itself.
VmLocation == Location_new_z(0, 0, "_vm")

----------------------------------------------------------------------------
(* Option<T>: None is the empty sequence, Some(v) the sequence <<v>>. *)

None == <<>>
Some(v) == <<v>>
is_some(o) == Len(o) = 1
is_none(o) == Len(o) = 0
unwrap(o) == o[1]

\* A HashMap: a function on the set of its keys.
EmptyMap == [n \in {} |-> 0]
contains_key(m, key) == key \in DOMAIN m
insert(m, key, val) == [n \in (DOMAIN m) \cup {key} |-> IF n = key THEN val ELSE m[n]]
remove(m, key) == [n \in (DOMAIN m) \ {key} |-> m[n]]

----------------------------------------------------------------------------
(* parser/types.rs: the syntax tree *)

IntLiteral(v) == [e |-> "IntLiteral", int |-> v]
StringLiteral(raw) == [e |-> "StringLiteral", raw |-> raw]
BoolLiteral(v) == [e |-> "BoolLiteral", bool |-> v]
Identifier(name) == [e |-> "Identifier", name |-> name]
FuncCall(func_expr, args) == [e |-> "FuncCall", func_expr |-> func_expr, args |-> args]
ArrayExpr(args) == [e |-> "Array", args |-> args]
BinaryExpr(left, class, op, right) ==
    [e |-> "Binary", left |-> left, right |-> right, class |-> class, op |-> op]
StructInstanceExpr(name, vars_init) ==
    [e |-> "StructInstance", name |-> name, vars_init |-> vars_init]

Noop(loc) == [s |-> "Noop", location |-> loc]
VarDecl(loc, name, val) == [s |-> "VarDecl", location |-> loc, name |-> name, val |-> val]
Assign(loc, target, val) == [s |-> "Assign", location |-> loc, target |-> target, val |-> val]
FuncDecl(loc, name, args, statements) ==
    [s |-> "FuncDecl", location |-> loc, name |-> name, args |-> args,
     statements |-> statements]
IfStatement(loc, val, statements) ==
    [s |-> "If", location |-> loc, val |-> val, statements |-> statements]
StructDecl(loc, name, fields) ==
    [s |-> "StructDecl", location |-> loc, name |-> name, fields |-> fields]
ExprStatement(loc, expr) == [s |-> "ExprStatement", location |-> loc, expr |-> expr]

----------------------------------------------------------------------------
(* vm/variant.rs: VmVariant.  A String is the sequence of its characters'  *)
(* codes, so that strings are ordered as the source orders them.           *)

Unit == [t |-> "Unit"]
Bool(b) == [t |-> "Bool", b |-> b]
Integer(i) == [t |-> "Integer", i |-> i]
String(s) == [t |-> "String", s |-> s]
Array(a) == [t |-> "Array", a |-> a]
Struct(members) == [t |-> "Struct", m |-> members]
Ref(r) == [t |-> "Ref", r |-> r]

(* VmResult<T> *)
Ok(v) == [k |-> "Ok", v |-> v]
Err(err) == [k |-> "Err", err |-> err]
\* The process dies (a Rust panic, a stack overflow) or never returns (a
\* lock taken twice): control does not come back to the caller.
Abort(why) == [k |-> "Abort", why |-> why]
IsOk(r) == r.k = "Ok"

----------------------------------------------------------------------------
(* vm/error.rs: VmError = an error type and a context *)

ContextInternal == [ctx |-> "Internal"]

VmError_new(err_type) == [err_type |-> err_type, context |-> ContextInternal]

with_context_func_call(err, location, func_name) ==
    [err EXCEPT !.context = [ctx |-> "FuncCall", location |-> location,
                             func_name |-> func_name, arg_name |-> None]]

\* VmResultExt::with_context_func_call: map_err
result_with_context_func_call(r, location, func_name) ==
    IF r.k = "Err" THEN Err(with_context_func_call(r.err, location, func_name)) ELSE r

unknown_identifier(name) == VmError_new([type |-> "UnknownIdentifier", name |-> name])
func_name_dup(name) == VmError_new([type |-> "FuncNameDuplicate", name |-> name])
var_name_dup(name) == VmError_new([type |-> "VarNameDuplicate", name |-> name])

\* Variant of wrong_arg_count that takes its two counts the other way round.
wrong_arg_count_swapped(limit, got) ==
    VmError_new(IF limit < got
                THEN [type |-> "NotEnoughArg", expected |-> got, got |-> limit]
                ELSE [type |-> "TooMuchArgs", expected |-> got, got |-> limit])

wrong_arg_count(limit, got) ==
    VmError_new(IF got < limit
                THEN [type |-> "NotEnoughArg", expected |-> limit, got |-> got]
                ELSE [type |-> "TooMuchArgs", expected |-> limit, got |-> got])

invalid_value_type(expected, got) ==
    VmError_new([type |-> "InvalidValueType", expected |-> expected, got |-> got])

invalid_escape(raw_string, invalid_escape_idx) ==
    VmError_new([type |-> "InvalidEscape", raw_string |-> raw_string,
                 invalid_escape_idx |-> invalid_escape_idx])

invalid_comparison(left_type, right_type) ==
    VmError_new([type |-> "InvalidComparison", left_type |-> left_type,
                 right_type |-> right_type])

\* Constructors that vm/mod.rs calls and vm/error.rs does not define: each keeps
\* the name it is given.
struct_name_dup(name) == VmError_new([type |-> "StructNameDuplicate", name |-> name])
missing_struct_member(name) == VmError_new([type |-> "MissingStructMember", name |-> name])
unknown_struct_member(name) == VmError_new([type |-> "UnknownStructMember", name |-> name])
unsupported(what) == VmError_new([type |-> "Unsupported", what |-> what])

----------------------------------------------------------------------------
(* vm/variant.rs: the operations on values.  cs is the store of cells. *)

\* StoredValue::value: the content of the cell (the lock is released on return)
value(cs, r) == cs[r]

\* VmTypable::get_typeinfo.  A Ref asks its cell, which holds its lock while it
\* asks its content: a chain of references that comes back to a cell whose lock
\* is held blocks for ever.  locked is the set of cells whose lock is held.
RECURSIVE get_typeinfo_locked(_, _, _)
get_typeinfo_locked(cs, v, locked) ==
    IF v.t = "Ref"
    THEN IF v.r \in locked
         THEN Abort("deadlock")
         ELSE get_typeinfo_locked(cs, cs[v.r], locked \cup {v.r})
    ELSE Ok(v.t)

get_typeinfo(cs, v) == get_typeinfo_locked(cs, v, {})

\* Ord for bool, i64
cmp_int(a, b) == IF a < b THEN "Less" ELSE IF a = b THEN "Equal" ELSE "Greater"
cmp_bool(a, b) == cmp_int(IF a THEN 1 ELSE 0, IF b THEN 1 ELSE 0)

\* Ord for String: lexicographic on the codes, then on the lengths
RECURSIVE cmp_string(_, _, _)
cmp_string(a, b, i) ==
    IF i > Len(a) \/ i > Len(b)
    THEN cmp_int(Len(a), Len(b))
    ELSE IF a[i] = b[i] THEN cmp_string(a, b, i + 1) ELSE cmp_int(a[i], b[i])

\* VmVariant::compare: "Less", "Equal", "Greater", "None" (incomparable), or
\* "StackOverflow" when the recursion does not end. `seen` holds the pairs of
\* operands met on the way down through references: a pair met again repeats
\* for ever, and the stack of the process overflows.
RECURSIVE compare_seen(_, _, _, _), partial_cmp_slice(_, _, _, _, _)
compare_seen(cs, self, other, seen) ==
    IF self.t = "Unit" /\ other.t = "Unit" THEN "Equal"
    ELSE IF self.t = "Bool" /\ other.t = "Bool" THEN cmp_bool(self.b, other.b)
    ELSE IF self.t = "Integer" /\ other.t = "Integer" THEN cmp_int(self.i, other.i)
    ELSE IF self.t = "String" /\ other.t = "String" THEN cmp_string(self.s, other.s, 1)
    ELSE IF self.t = "Array" /\ other.t = "Array"
         THEN partial_cmp_slice(cs, self.a, other.a, 1, seen)
    ELSE IF self.t # "Ref" /\ other.t # "Ref" THEN "None"
    ELSE IF <<self, other>> \in seen THEN "StackOverflow"
    ELSE LET met == seen \cup {<<self, other>>} IN
         IF self.t = "Ref" /\ other.t = "Ref"
         THEN compare_seen(cs, value(cs, self.r), value(cs, other.r), met)
         ELSE IF self.t = "Ref" THEN compare_seen(cs, value(cs, self.r), other, met)
         ELSE compare_seen(cs, self, value(cs, other.r), met)

\* Vec<VmVariant>::partial_cmp through PartialOrd for VmVariant: the first pair
\* of elements that is not Equal decides, then the lengths.
partial_cmp_slice(cs, a, b, i, seen) ==
    IF i > Len(a) \/ i > Len(b)
    THEN cmp_int(Len(a), Len(b))
    ELSE LET c == compare_seen(cs, a[i], b[i], seen) IN
         IF c = "Equal" THEN partial_cmp_slice(cs, a, b, i + 1, seen) ELSE c

compare(cs, self, other) == compare_seen(cs, self, other, {})

\* TryFromVariant::try_from_variant (impl_try_from_variant!): the type is asked
\* first, then only a value of exactly the wanted variant is accepted.
try_native(cs, variant, wanted) ==
    LET typeinfo == get_typeinfo(cs, variant) IN
    IF ~IsOk(typeinfo) THEN typeinfo
    ELSE IF variant.t = wanted
         THEN Ok(CASE wanted = "Bool" -> variant.b
                   [] wanted = "Integer" -> variant.i
                   [] wanted = "String" -> variant.s
                   [] wanted = "Array" -> variant.a)
         ELSE Err(invalid_value_type(wanted, typeinfo.v))

\* Character codes
QUOTE == 34
BACKSLASH == 92

\* The character an escape stands for; 0 when the escape is not recognized.
escape_char(c) ==
    CASE c = 110 -> 10       \* n -> \n
      [] c = 114 -> 13       \* r -> \r
      [] c = 116 -> 9        \* t -> \t
      [] c = BACKSLASH -> BACKSLASH
      [] c = 48 -> 9         \* 0 -> \t
      [] c = 39 -> 39        \* ' -> '
      [] c = QUOTE -> QUOTE
      [] OTHER -> 0

\* The loop of new_from_string_expr over the characters of the trimmed literal;
\* idx counts from 0 as enumerate() does.
RECURSIVE unescape(_, _, _, _, _)
unescape(str, trimmed, idx, escaped, res_str) ==
    IF idx >= Len(trimmed) THEN Ok(String(res_str))
    ELSE LET c == trimmed[idx + 1] IN
         IF escaped
         THEN IF escape_char(c) = 0
              THEN Err(invalid_escape(str, idx - 1))
              ELSE unescape(str, trimmed, idx + 1, FALSE, Append(res_str, escape_char(c)))
         ELSE IF c = BACKSLASH
              THEN unescape(str, trimmed, idx + 1, TRUE, res_str)
              ELSE unescape(str, trimmed, idx + 1, FALSE, Append(res_str, c))

\* VmVariant::new_from_string_expr: str is the raw literal, quotes included.
new_from_string_expr(str) ==
    IF Len(str) < 2
    THEN Abort("panic: slice index")
    ELSE unescape(str, SubSeq(str, 2, Len(str) - 1), 0, FALSE, <<>>)

----------------------------------------------------------------------------
(* vm/mod.rs: Scope and Vm *)

Scope_new ==
    [variables |-> EmptyMap, functions |-> EmptyMap, structs |-> EmptyMap,
     caller |-> VmLocation]

Scope_new_subscope(caller) ==
    [variables |-> EmptyMap, functions |-> EmptyMap, structs |-> EmptyMap,
     caller |-> caller]

\* Vm::register_default_builtins: the names of the registry
DefaultBuiltins == {"println", "exec", "env", "typename"}

\* Vm::new, then register_default_builtins as main does
Vm_new ==
    [global_scope |-> Scope_new,
     stack_scope |-> None,
     builtins |-> DefaultBuiltins,
     allow_var_shadowing |-> FALSE,
     allow_implicit_var |-> FALSE,
     root_package_location |-> VmLocation]

get_scope(v) == IF is_some(v.stack_scope) THEN unwrap(v.stack_scope) ELSE v.global_scope

\* A write through get_scope_mut: the active scope becomes scope.
set_scope(v, scope) ==
    IF is_some(v.stack_scope)
    THEN [v EXCEPT !.stack_scope = Some(scope)]
    ELSE [v EXCEPT !.global_scope = scope]

caller_location(v) == get_scope(v).caller

(***************************************************************************)
(* The state an evaluation runs on: the Vm, the cells, the output, and the *)
(* history of the evaluation (trace, with the nesting depth of the current *)
(* evaluation).  order is the order in which the hash containers of this   *)
(* evaluation iterate; overflow_checks is the build's integer overflow     *)
(* behaviour.  An evaluation returns the state after it and its result.    *)
(***************************************************************************)
Ret(st, r) == [st |-> st, r |-> r]
Log(st, ev) == [st EXCEPT !.trace = Append(@, ev)]
OkUnit == Ok(None)

\* StoredValue::new: a fresh cell; r is its handle
StoredValue_new(st, v) ==
    [st |-> [st EXCEPT !.cells = Append(@, v)], r |-> Len(st.cells) + 1]

\* Variant of set_value that loses the write.
set_value_lost(st, r, v) == st

\* StoredValue::set_value
set_value(st, r, v) == [st EXCEPT !.cells[r] = v]

\* The elements of the set S in the order of iteration ord
RECURSIVE iter_order(_, _)
iter_order(S, ord) ==
    IF ord = <<>> THEN <<>>
    ELSE IF Head(ord) \in S
         THEN <<Head(ord)>> \o iter_order(S, Tail(ord))
         ELSE iter_order(S, Tail(ord))

get_struct_data(st, struct_name) ==
    LET scope == get_scope(st.vm) IN
    IF contains_key(scope.structs, struct_name)
    THEN Ok(scope.structs[struct_name])
    ELSE Err(unknown_identifier(struct_name))

\* Variant of get_variable that falls back on the global scope (the TODO of
\* get_variable).
get_variable_fallback(st, var_name) ==
    LET scope == get_scope(st.vm) IN
    IF contains_key(scope.variables, var_name)
    THEN Ok(Ref(scope.variables[var_name]))
    ELSE IF contains_key(st.vm.global_scope.variables, var_name)
    THEN Ok(Ref(st.vm.global_scope.variables[var_name]))
    ELSE Err(unknown_identifier(var_name))

get_variable(st, var_name) ==
    LET scope == get_scope(st.vm) IN
    IF contains_key(scope.variables, var_name)
    THEN Ok(Ref(scope.variables[var_name]))
    ELSE Err(unknown_identifier(var_name))

\* The history of a lookup by name: what was looked up (kind is the table:
\* "variables", "functions" or "structs"), whether a call or block scope was
\* active, which of the two scopes bind the name, and the outcome.
Looked(st, kind, name, res) ==
    Log(st, [ev |-> "lookup", depth |-> st.depth, kind |-> kind, name |-> name,
             active |-> is_some(st.vm.stack_scope),
             in_stack |-> /\ is_some(st.vm.stack_scope)
                          /\ contains_key(unwrap(st.vm.stack_scope)[kind], name),
             in_global |-> contains_key(st.vm.global_scope[kind], name),
             res |-> res])

\* Variant of eval_comparison where incomparable operands are unequal, as for
\* PartialEq, instead of an error.
eval_comparison_partial_eq(st, op, left, right) ==
    LET ord == compare(st.cells, left, right) IN
    IF ord = "StackOverflow" THEN Abort("stack overflow")
    ELSE IF ord = "None" THEN Ok(Bool(op = "NotEqual"))
    ELSE IF ord = "Equal" /\ op \in {"Equal", "GreaterOrEqual", "LessOrEqual"}
         THEN Ok(Bool(TRUE))
    ELSE IF op = "NotEqual" THEN Ok(Bool(ord # "Equal"))
    ELSE IF ord = "Greater" /\ op \in {"Greater", "GreaterOrEqual"} THEN Ok(Bool(TRUE))
    ELSE IF ord = "Less" /\ op \in {"Less", "LessOrEqual"} THEN Ok(Bool(TRUE))
    ELSE Ok(Bool(FALSE))

eval_comparison(st, op, left, right) ==
    LET ord == compare(st.cells, left, right) IN
    IF ord = "StackOverflow" THEN Abort("stack overflow")
    ELSE IF ord = "None"
    THEN LET lt == get_typeinfo(st.cells, left)
             rt == get_typeinfo(st.cells, right) IN
         IF ~IsOk(lt) THEN lt
         ELSE IF ~IsOk(rt) THEN rt
         ELSE Err(invalid_comparison(lt.v, rt.v))
    ELSE IF ord = "Equal" /\ op \in {"Equal", "GreaterOrEqual", "LessOrEqual"}
         THEN Ok(Bool(TRUE))
    ELSE IF op = "NotEqual" THEN Ok(Bool(ord # "Equal"))
    ELSE IF ord = "Greater" /\ op \in {"Greater", "GreaterOrEqual"} THEN Ok(Bool(TRUE))
    ELSE IF ord = "Less" /\ op \in {"Less", "LessOrEqual"} THEN Ok(Bool(TRUE))
    ELSE Ok(Bool(FALSE))

\* An i64 result of the build: out of range it panics with overflow checks and
\* wraps without them.
wrap(n) == ((n - IntMin) % (2 ^ IntBits)) + IntMin
arith(st, n) ==
    IF n >= IntMin /\ n <= IntMax THEN Ok(Integer(n))
    ELSE IF st.overflow_checks THEN Abort("panic: arithmetic overflow")
    ELSE Ok(Integer(wrap(n)))

\* i64 division truncates toward zero
div_trunc(a, b) ==
    LET q == (IF a < 0 THEN -a ELSE a) \div (IF b < 0 THEN -b ELSE b) IN
    IF (a < 0) # (b < 0) THEN -q ELSE q

eval_numerical_op(st, op, left, right) ==
    LET l == try_native(st.cells, left, "Integer") IN
    IF ~IsOk(l) THEN l
    ELSE LET r == try_native(st.cells, right, "Integer") IN
    IF ~IsOk(r) THEN r
    ELSE CASE op = "Add" -> arith(st, l.v + r.v)
           [] op = "Sub" -> arith(st, l.v - r.v)
           [] op = "Mul" -> arith(st, l.v * r.v)
           [] op = "Div" ->
                IF r.v = 0 THEN Abort("panic: division by zero")
                ELSE IF l.v = IntMin /\ r.v = -1 THEN Abort("panic: division overflow")
                ELSE Ok(Integer(div_trunc(l.v, r.v)))

----------------------------------------------------------------------------
(* vm/builtins.rs *)

\* Display for VmVariant: what is written for a value.  A Ref and a struct
\* member write their cell's content with the cell's lock held; the result is
\* the value with every reference replaced by what is written for it.
RECURSIVE display(_, _, _), display_all(_, _, _, _)
display(cs, v, locked) ==
    IF v.t = "Ref"
    THEN IF v.r \in locked THEN Abort("deadlock")
         ELSE display(cs, cs[v.r], locked \cup {v.r})
    ELSE IF v.t = "Array"
    THEN LET d == display_all(cs, v.a, 1, locked) IN
         IF IsOk(d) THEN Ok(Array(d.v)) ELSE d
    ELSE IF v.t = "Struct"
    THEN LET d == [n \in DOMAIN v.m |-> display(cs, Ref(v.m[n]), locked)] IN
         IF \A n \in DOMAIN v.m : IsOk(d[n])
         THEN Ok([t |-> "Struct", shown |-> [n \in DOMAIN v.m |-> d[n].v]])
         ELSE Abort("deadlock")
    ELSE Ok(v)
display_all(cs, vs, i, locked) ==
    IF i > Len(vs) THEN Ok(<<>>)
    ELSE LET d == display(cs, vs[i], locked) IN
         IF ~IsOk(d) THEN d
         ELSE LET rest == display_all(cs, vs, i + 1, locked) IN
              IF IsOk(rest) THEN Ok(<<d.v>> \o rest.v) ELSE rest

\* println: the arguments, then a line break
builtin_println(st, name, args) ==
    LET d == display_all(st.cells, args, 1, {}) IN
    IF ~IsOk(d) THEN Ret(st, d)
    ELSE Ret([st EXCEPT !.out = Append(@, d.v)], Ok(Unit))

\* Display for VmType: the characters of the type's name
type_name_chars(t) ==
    CASE t = "Unit" -> <<85, 110, 105, 116>>
      [] t = "Bool" -> <<66, 111, 111, 108>>
      [] t = "Integer" -> <<73, 110, 116, 101, 103, 101, 114>>
      [] t = "String" -> <<83, 116, 114, 105, 110, 103>>
      [] t = "Array" -> <<65, 114, 114, 97, 121>>
      [] t = "Struct" -> <<83, 116, 114, 117, 99, 116>>

\* typename: the name of its one argument's type
builtin_typename(st, name, args) ==
    IF Len(args) = 0
    THEN Ret(st, Err(VmError_new([type |-> "NotEnoughArg", func_name |-> name,
                                  expected |-> 1, got |-> 0])))
    ELSE IF Len(args) # 1
    THEN Ret(st, Err(VmError_new([type |-> "TooMuchArgs", func_name |-> name,
                                  expected |-> 1, got |-> 0])))
    ELSE LET t == get_typeinfo(st.cells, args[1]) IN
         IF IsOk(t) THEN Ret(st, Ok(String(type_name_chars(t.v)))) ELSE Ret(st, t)

\* The environment of the process: the variable H is set to the text v, no
\* other variable is set.
ProcessEnv == [n \in {<<72>>} |-> <<118>>]

\* env: the value of the environment variable its one argument names, Unit
\* when the variable is not set; an argument that is not a String is rejected
\* by expect_arg_variant_type.
builtin_env(st, name, args) ==
    IF Len(args) = 0
    THEN Ret(st, Err(VmError_new([type |-> "NotEnoughArg", func_name |-> name,
                                  expected |-> 1, got |-> 0])))
    ELSE IF Len(args) # 1
    THEN Ret(st, Err(VmError_new([type |-> "TooMuchArgs", func_name |-> name,
                                  expected |-> 1, got |-> 0])))
    ELSE IF args[1].t # "String"
    THEN Ret(st, Err(VmError_new([type |-> "InvalidArgType", func_name |-> name,
                                  arg_name |-> "env_var", expected |-> "String"])))
    ELSE IF args[1].s \in DOMAIN ProcessEnv
    THEN Ret(st, Ok(String(ProcessEnv[args[1].s])))
    ELSE Ret(st, Ok(Unit))

\* The call of a registered builtin.  exec reaches outside the process (a
\* child process) and is not called by the statements of this model.
call_builtin(st, func_name, params) ==
    CASE func_name = "println" -> builtin_println(st, func_name, params)
      [] func_name = "typename" -> builtin_typename(st, func_name, params)
      [] func_name = "env" -> builtin_env(st, func_name, params)

----------------------------------------------------------------------------
(* vm/mod.rs: the evaluator *)

\* The methods of Vm call one another through eval_expr (on an expression) and
\* exec_package (on a statement): visit is that call, on either kind of node.
RECURSIVE visit(_, _)

\* ParsedHighLevel::VarDecl
\* Variant of eval_var_decl that rebinds a name already bound.
eval_var_decl_rebind(st, var_decl) ==
    LET e == visit(st, var_decl.val) IN
    IF ~IsOk(e.r) THEN e
    ELSE LET scope == get_scope(e.st.vm)
             c == StoredValue_new(e.st, e.r.v) IN
         Ret([c.st EXCEPT !.vm = set_scope(@, [scope EXCEPT !.variables =
                                                insert(@, var_decl.name, c.r)])],
             OkUnit)

\* Variant of eval_var_decl that stores what a reference refers to in place of
\* the reference.
eval_var_decl_copy(st, var_decl) ==
    LET e == visit(st, var_decl.val) IN
    IF ~IsOk(e.r) THEN e
    ELSE LET scope == get_scope(e.st.vm) IN
         IF ~e.st.vm.allow_var_shadowing /\ contains_key(scope.variables, var_decl.name)
         THEN Ret(e.st, Err(var_name_dup(var_decl.name)))
         ELSE LET v == IF e.r.v.t = "Ref" THEN value(e.st.cells, e.r.v.r) ELSE e.r.v
                  c == StoredValue_new(e.st, v) IN
              Ret([c.st EXCEPT !.vm = set_scope(@, [scope EXCEPT !.variables =
                                                     insert(@, var_decl.name, c.r)])],
                  OkUnit)

eval_var_decl(st, var_decl) ==
    LET e == visit(st, var_decl.val) IN
    IF ~IsOk(e.r) THEN e
    ELSE LET scope == get_scope(e.st.vm) IN
         IF ~e.st.vm.allow_var_shadowing /\ contains_key(scope.variables, var_decl.name)
         THEN Ret(e.st, Err(var_name_dup(var_decl.name)))
         ELSE LET c == StoredValue_new(e.st, e.r.v) IN
              Ret([c.st EXCEPT !.vm = set_scope(@, [scope EXCEPT !.variables =
                                                     insert(@, var_decl.name, c.r)])],
                  OkUnit)

\* eval_expr down to a reference: r.v is the handle of the cell
eval_ref(st, expr) ==
    LET e == visit(st, expr) IN
    IF ~IsOk(e.r) THEN e
    ELSE IF e.r.v.t = "Ref" THEN Ret(e.st, Ok(e.r.v.r))
    ELSE LET t == get_typeinfo(e.st.cells, e.r.v) IN
         Ret(e.st, IF IsOk(t) THEN Err(invalid_value_type("reference", t.v)) ELSE t)

\* ParsedHighLevel::Assign
eval_assign(st, var_assign) ==
    LET target == eval_ref(st, var_assign.target) IN
    IF ~IsOk(target.r) THEN target
    ELSE LET val == visit(target.st, var_assign.val) IN
         IF ~IsOk(val.r) THEN val
         ELSE Ret(set_value(val.st, target.r.v, val.r.v), OkUnit)

RECURSIVE eval_args(_, _, _, _)
\* The arguments from the i-th on, in order, up to the first that fails;
\* acc holds the values of those before.
eval_args(st, args, i, acc) ==
    IF i > Len(args) THEN Ret(st, Ok(acc))
    ELSE LET e == visit(st, args[i]) IN
         IF ~IsOk(e.r) THEN e
         ELSE eval_args(e.st, args, i + 1, Append(acc, e.r.v))

RECURSIVE run_body(_, _, _)
\* The loop of call_func over the body from the i-th statement on
run_body(st, packages, i) ==
    IF i > Len(packages) THEN Ret(st, Ok(Unit))
    ELSE LET p == visit(st, packages[i]) IN
         IF p.r.k = "Abort" THEN p
         ELSE IF p.r.k = "Err" THEN p
         ELSE IF is_some(p.r.v) THEN Ret(p.st, Ok(unwrap(p.r.v)))
         ELSE run_body(p.st, packages, i + 1)

\* call_func once the user function is found
call_user_func(st, func_name, params, user_func) ==
    LET old_scope == st.vm.stack_scope
        s1 == [st EXCEPT !.vm.stack_scope = Some(Scope_new_subscope(VmLocation))]
    IN IF Len(params) # Len(user_func.args)
       THEN Ret(s1, result_with_context_func_call(
                        Err(wrong_arg_count(Len(user_func.args), Len(params))),
                        caller_location(s1.vm), func_name))
       ELSE LET bound == [n \in {user_func.args[j] : j \in 1..Len(params)} |->
                             LET j == CHOOSE j \in 1..Len(params) :
                                        /\ user_func.args[j] = n
                                        /\ \A h \in (j + 1)..Len(params) : user_func.args[h] # n
                             IN Len(s1.cells) + j]
                s2 == [s1 EXCEPT !.cells = @ \o params,
                                 !.vm.stack_scope[1].variables = bound]
                b == run_body(s2, user_func.packages, 1)
            IN IF b.r.k = "Abort" THEN b
               ELSE Ret([b.st EXCEPT !.vm.stack_scope = old_scope], b.r)

\* call_func on the name of a builtin: the builtin is called with the Vm as
\* it is; with the history of the call and of its return
call_func_builtin(st, func_name, params) ==
    LET b == call_builtin(Log(st, [ev |-> "builtin", depth |-> st.depth, name |-> func_name]),
                          func_name, params)
    IN IF b.r.k = "Abort" THEN b
       ELSE Ret(Log(b.st, [ev |-> "builtin_ret", depth |-> st.depth, name |-> func_name,
                           from |-> Len(st.trace) + 1,
                           declared |-> contains_key(get_scope(st.vm).functions, func_name),
                           pre |-> st.vm.stack_scope, post |-> b.st.vm.stack_scope,
                           res |-> b.r]),
                b.r)

\* call_func on a name that is not taken by a builtin: the user function of
\* the current scope
call_func_user(st0, func_name, params) ==
    LET functions == get_scope(st0.vm).functions
        st == Looked(st0, "functions", func_name,
                     IF contains_key(functions, func_name)
                     THEN Ok(functions[func_name])
                     ELSE Err(unknown_identifier(func_name)))
    IN IF contains_key(functions, func_name)
       THEN LET from == Len(st.trace) + 1
                s0 == Log(st, [ev |-> "call", depth |-> st.depth, name |-> func_name,
                               args |-> functions[func_name].args, params |-> params])
                c == call_user_func(s0, func_name, params, functions[func_name])
            IN Ret(Log(c.st, [ev |-> "ret", depth |-> st.depth, from |-> from,
                              name |-> func_name, pre |-> st.vm.stack_scope,
                              post |-> c.st.vm.stack_scope, res |-> c.r]),
                   c.r)
       ELSE Ret(st, Err(unknown_identifier(func_name)))

\* Variant of call_func where a user function of the current scope comes
\* before the builtin of the same name.
call_func_user_first(st, func_name, params) ==
    IF contains_key(get_scope(st.vm).functions, func_name)
    THEN call_func_user(st, func_name, params)
    ELSE IF func_name \in st.vm.builtins
    THEN call_func_builtin(st, func_name, params)
    ELSE call_func_user(st, func_name, params)

call_func(st, func_name, params) ==
    IF func_name \in st.vm.builtins
    THEN call_func_builtin(st, func_name, params)
    ELSE call_func_user(st, func_name, params)

eval_func_call(st, func_call_expr) ==
    LET params == eval_args(st, func_call_expr.args, 1, <<>>) IN
    IF ~IsOk(params.r) THEN params
    ELSE IF func_call_expr.func_expr.e # "Identifier"
    THEN Ret(params.st, Err(unsupported("function expression")))
    ELSE call_func(params.st, func_call_expr.func_expr.name, params.r.v)

\* ParsedHighLevel::StructDecl
eval_struct_decl(st, decl) ==
    LET scope == get_scope(st.vm) IN
    IF contains_key(scope.structs, decl.name)
    THEN Ret(st, Err(struct_name_dup(decl.name)))
    ELSE Ret([st EXCEPT !.vm = set_scope(@, [scope EXCEPT !.structs =
                                              insert(@, decl.name, [vars |-> decl.fields])])],
             OkUnit)

\* ParsedHighLevel::FuncDecl; FunctionData is built by From<FuncDecl>
eval_func_decl(st, func_decl) ==
    LET scope == get_scope(st.vm) IN
    IF contains_key(scope.functions, func_decl.name)
    THEN Ret(st, Err(func_name_dup(func_decl.name)))
    ELSE Ret([st EXCEPT !.vm = set_scope(@, [scope EXCEPT !.functions =
                 insert(@, func_decl.name,
                        [args |-> func_decl.args, packages |-> func_decl.statements])])],
             OkUnit)

RECURSIVE exec_block(_, _, _)
\* The statements of a block from the i-th on; the first that fails ends the
\* block at once (the ? of eval_if).
exec_block(st, statements, i) ==
    IF i > Len(statements) THEN Ret(st, OkUnit)
    ELSE LET p == visit(st, statements[i]) IN
         IF ~IsOk(p.r) THEN p
         ELSE exec_block(p.st, statements, i + 1)

\* ParsedHighLevel::If
eval_if(st, if_statement) ==
    LET cond_variant == visit(st, if_statement.val) IN
    IF ~IsOk(cond_variant.r) THEN cond_variant
    ELSE LET cond == try_native(cond_variant.st.cells, cond_variant.r.v, "Bool") IN
    IF ~IsOk(cond) THEN Ret(cond_variant.st, cond)
    ELSE IF ~cond.v THEN Ret(cond_variant.st, OkUnit)
    ELSE LET old_scope == cond_variant.st.vm.stack_scope
             s1 == [cond_variant.st EXCEPT !.vm.stack_scope = Some(Scope_new)]
             b == exec_block(s1, if_statement.statements, 1)
             s2 == IF IsOk(b.r) THEN [b.st EXCEPT !.vm.stack_scope = old_scope] ELSE b.st
         IN Ret(Log(s2, [ev |-> "if_ret", depth |-> st.depth, pre |-> old_scope,
                         post |-> s2.vm.stack_scope, res |-> b.r]),
                b.r)

eval_array(st, array_data) ==
    LET elems == eval_args(st, array_data.args, 1, <<>>) IN
    IF ~IsOk(elems.r) THEN elems
    ELSE Ret(elems.st, Ok(Array(elems.r.v)))

RECURSIVE eval_struct_fields(_, _, _, _, _)
\* The loop of eval_struct_instance over the declared fields from the i-th on;
\* vars_init holds the initializers not yet taken, members the cells made.
eval_struct_fields(st, fields, i, vars_init, members) ==
    IF i > Len(fields)
    THEN IF DOMAIN vars_init # {}
         THEN Ret(st, Err(unknown_struct_member(iter_order(DOMAIN vars_init, st.order)[1])))
         ELSE Ret(st, Ok(Struct(members)))
    ELSE LET field == fields[i] IN
         IF ~contains_key(vars_init, field)
         THEN Ret(st, Err(missing_struct_member(field)))
         ELSE LET e == visit(st, vars_init[field]) IN
              IF ~IsOk(e.r) THEN e
              ELSE LET c == StoredValue_new(e.st, e.r.v) IN
                   eval_struct_fields(c.st, fields, i + 1, remove(vars_init, field),
                                      insert(members, field, c.r))

\* Variant of eval_struct_instance that drops the initializers of fields the
\* struct does not declare.
eval_struct_instance_lenient(st0, struct_instance) ==
    LET struct_data == get_struct_data(st0, struct_instance.name)
        st == Looked(st0, "structs", struct_instance.name, struct_data) IN
    IF ~IsOk(struct_data) THEN Ret(st, struct_data)
    ELSE LET known == [n \in DOMAIN struct_instance.vars_init \cap struct_data.v.vars |->
                          struct_instance.vars_init[n]]
             o == eval_struct_fields(st, iter_order(struct_data.v.vars, st.order), 1,
                                     known, EmptyMap)
         IN Ret(Log(o.st, [ev |-> "struct_ret", depth |-> st.depth,
                           from |-> Len(st.trace) + 1, name |-> struct_instance.name,
                           declared |-> struct_data.v.vars,
                           init |-> DOMAIN struct_instance.vars_init, res |-> o.r]),
                o.r)

eval_struct_instance(st0, struct_instance) ==
    LET struct_data == get_struct_data(st0, struct_instance.name)
        st == Looked(st0, "structs", struct_instance.name, struct_data) IN
    IF ~IsOk(struct_data) THEN Ret(st, struct_data)
    ELSE LET o == eval_struct_fields(st, iter_order(struct_data.v.vars, st.order), 1,
                                     struct_instance.vars_init, EmptyMap)
         IN Ret(Log(o.st, [ev |-> "struct_ret", depth |-> st.depth,
                           from |-> Len(st.trace) + 1, name |-> struct_instance.name,
                           declared |-> struct_data.v.vars,
                           init |-> DOMAIN struct_instance.vars_init, res |-> o.r]),
                o.r)

\* Variant of eval_bool_op that evaluates both operands before it decides.
eval_bool_op_eager(st, op, left, right) ==
    LET from == Len(st.trace) + 1
        l == visit(st, left) IN
    IF ~IsOk(l.r) THEN l
    ELSE LET lb == try_native(l.st.cells, l.r.v, "Bool") IN
    IF ~IsOk(lb) THEN Ret(l.st, lb)
    ELSE LET r == visit(l.st, right)
             short == (op = "And" /\ ~lb.v) \/ (op = "Or" /\ lb.v)
             o == IF short THEN Ret(r.st, Ok(Bool(lb.v)))
                  ELSE IF ~IsOk(r.r) THEN r
                  ELSE LET rb == try_native(r.st.cells, r.r.v, "Bool") IN
                       Ret(r.st, IF IsOk(rb) THEN Ok(Bool(rb.v)) ELSE rb)
         IN Ret(Log(o.st, [ev |-> "bool_ret", depth |-> st.depth, from |-> from, op |-> op,
                           left |-> left, right |-> right, left_value |-> lb.v,
                           res |-> o.r]),
                o.r)

eval_bool_op(st, op, left, right) ==
    LET from == Len(st.trace) + 1
        l == visit(st, left) IN
    IF ~IsOk(l.r) THEN l
    ELSE LET lb == try_native(l.st.cells, l.r.v, "Bool") IN
    IF ~IsOk(lb) THEN Ret(l.st, lb)
    ELSE LET o == IF (op = "Or" /\ ~lb.v) \/ (op = "And" /\ lb.v)
                  THEN LET r == visit(l.st, right) IN
                       IF ~IsOk(r.r) THEN r
                       ELSE LET rb == try_native(r.st.cells, r.r.v, "Bool") IN
                            Ret(r.st, IF IsOk(rb) THEN Ok(Bool(rb.v)) ELSE rb)
                  ELSE Ret(l.st, Ok(Bool(lb.v)))
         IN Ret(Log(o.st, [ev |-> "bool_ret", depth |-> st.depth, from |-> from, op |-> op,
                           left |-> left, right |-> right, left_value |-> lb.v,
                           res |-> o.r]),
                o.r)

eval_binary_expr(st, expr) ==
    IF expr.class = "Bool" THEN eval_bool_op(st, expr.op, expr.left, expr.right)
    ELSE LET left == visit(st, expr.left) IN
         IF ~IsOk(left.r) THEN left
         ELSE LET right == visit(left.st, expr.right) IN
              IF ~IsOk(right.r) THEN right
              ELSE IF expr.class = "Compare"
                   THEN LET c == eval_comparison(right.st, expr.op, left.r.v, right.r.v) IN
                        Ret(Log(right.st, [ev |-> "cmp_ret", depth |-> st.depth,
                                           op |-> expr.op, left |-> left.r.v,
                                           right |-> right.r.v, res |-> c]),
                            c)
                   ELSE Ret(right.st, eval_numerical_op(right.st, expr.op, left.r.v, right.r.v))

eval_expr_match(st, expr) ==
    CASE expr.e = "IntLiteral" -> Ret(st, Ok(Integer(expr.int)))
      [] expr.e = "StringLiteral" -> Ret(st, new_from_string_expr(expr.raw))
      [] expr.e = "BoolLiteral" -> Ret(st, Ok(Bool(expr.bool)))
      [] expr.e = "Identifier" ->
             LET v == get_variable(st, expr.name) IN
             Ret(Looked(st, "variables", expr.name, v), v)
      [] expr.e = "FuncCall" -> eval_func_call(st, expr)
      [] expr.e = "Array" -> eval_array(st, expr)
      [] expr.e = "Binary" -> eval_binary_expr(st, expr)
      [] expr.e = "StructInstance" -> eval_struct_instance(st, expr)

\* eval_expr, with the history of what is evaluated and how deep
eval_expr(st, expr) ==
    LET s0 == [Log(st, [ev |-> "eval", depth |-> st.depth, expr |-> expr])
                 EXCEPT !.depth = st.depth + 1]
        Returned(o) == Ret(Log([o.st EXCEPT !.depth = st.depth],
                               [ev |-> "eval_ret", depth |-> st.depth, res |-> o.r]),
                           o.r)
    IN Returned(eval_expr_match(s0, expr))

\* Variant of expr_statement_value that hands the value back in any scope.
expr_statement_value_always(st, v) == Some(v)

\* The closure exec_package maps over the value of an expression statement.
expr_statement_value(st, v) == IF is_none(st.vm.stack_scope) THEN Some(v) ELSE None

exec_package_match(st, package) ==
    CASE package.s = "VarDecl" -> eval_var_decl(st, package)
      [] package.s = "Assign" -> eval_assign(st, package)
      [] package.s = "StructDecl" -> eval_struct_decl(st, package)
      [] package.s = "FuncDecl" -> eval_func_decl(st, package)
      [] package.s = "If" -> eval_if(st, package)
      [] package.s = "ExprStatement" -> visit(st, package.expr)
      [] package.s = "Noop" -> Ret(st, OkUnit)

\* Vm::exec_package: the arm of the statement, then its map to an Option; with
\* the history of the statements executed
exec_package(st, located_package) ==
    LET s0 == [Log(st, [ev |-> "exec", depth |-> st.depth, s |-> located_package.s,
                        location |-> located_package.location])
                 EXCEPT !.depth = st.depth + 1,
                        !.vm.root_package_location = located_package.location]
        Mapped(o) == IF ~IsOk(o.r) THEN o.r
                     ELSE IF located_package.s # "ExprStatement" THEN Ok(None)
                     ELSE Ok(expr_statement_value(o.st, o.r.v))
        Returned(o, r) ==
            Ret(Log([o.st EXCEPT !.depth = st.depth],
                    [ev |-> "exec_ret", depth |-> st.depth, s |-> located_package.s,
                     scope_before |-> is_some(st.vm.stack_scope),
                     value |-> IF IsOk(o.r) /\ located_package.s = "ExprStatement"
                               THEN Some(o.r.v) ELSE None,
                     res |-> r]),
                r)
        Matched(o) == Returned(o, Mapped(o))
    IN Matched(exec_package_match(s0, located_package))

visit(st, node) ==
    IF "e" \in DOMAIN node THEN eval_expr(st, node) ELSE exec_package(st, node)

----------------------------------------------------------------------------
(* The statements the driver hands to the VM.  Line n of the script is the *)
(* n-th statement below; main names the source "stdin".                    *)

Loc(line) == Location_new_z(line - 1, 0, "stdin")
Call(name, args) == FuncCall(Identifier(name), args)
Lit1 == StringLiteral(<<QUOTE, 49, QUOTE>>)    \* "1"

Script ==
    << VarDecl(Loc(1), "x", IntLiteral(1)),                        \* let x = 1;
       Assign(Loc(2), Identifier("x"), IntLiteral(2)),             \* x = 2;
       VarDecl(Loc(3), "x", IntLiteral(3)),                        \* let x = 3;
       ExprStatement(Loc(4), Identifier("x")),                     \* x;
       FuncDecl(Loc(5), "add", <<"a", "b">>,                       \* fn add(a, b) { a + b }
                <<ExprStatement(Loc(5), BinaryExpr(Identifier("a"), "Numerical", "Add",
                                                   Identifier("b")))>>),
       ExprStatement(Loc(6), Call("add", <<IntLiteral(2), IntLiteral(3)>>)),   \* add(2, 3);
       ExprStatement(Loc(7), Call("add", <<IntLiteral(2)>>)),                  \* add(2);
       FuncDecl(Loc(8), "five", <<>>,                              \* fn five() { 5; println(6); }
                <<ExprStatement(Loc(8), IntLiteral(5)),
                  ExprStatement(Loc(8), Call("println", <<IntLiteral(6)>>))>>),
       ExprStatement(Loc(9), Call("five", <<>>)),                  \* five();
       ExprStatement(Loc(10), Call("five", <<IntLiteral(1)>>)),    \* five(1);
       FuncDecl(Loc(11), "bad", <<>>,                              \* fn bad() { nope(); }
                <<ExprStatement(Loc(11), Call("nope", <<>>))>>),
       ExprStatement(Loc(12), Call("bad", <<>>)),                  \* bad();
       IfStatement(Loc(13), BoolLiteral(TRUE),                     \* if true { let t = 1; }
                   <<VarDecl(Loc(13), "t", IntLiteral(1))>>),
       IfStatement(Loc(14), BoolLiteral(TRUE),                     \* if true { nope(); }
                   <<ExprStatement(Loc(14), Call("nope", <<>>))>>),
       StructDecl(Loc(15), "Point", {"x", "y"}),                   \* struct Point { x, y }
       ExprStatement(Loc(16), StructInstanceExpr("Point",          \* Point { x: 1, y: 2 };
                     [x |-> IntLiteral(1), y |-> IntLiteral(2)])),
       ExprStatement(Loc(17), StructInstanceExpr("Point",          \* Point { x: 1 };
                     [x |-> IntLiteral(1)])),
       ExprStatement(Loc(18), StructInstanceExpr("Point",          \* Point { x: 1, y: 2, z: 3 };
                     [x |-> IntLiteral(1), y |-> IntLiteral(2), z |-> IntLiteral(3)])),
       ExprStatement(Loc(19), StructInstanceExpr("Point",          \* Point { x: 1, z: 3 };
                     [x |-> IntLiteral(1), z |-> IntLiteral(3)])),
       ExprStatement(Loc(20), StructInstanceExpr("Point",          \* Point { x: nope, y: 2 };
                     [x |-> Identifier("nope"), y |-> IntLiteral(2)])),
       ExprStatement(Loc(21), BinaryExpr(BoolLiteral(FALSE), "Bool", "And",   \* false && nope();
                                         Call("nope", <<>>))),
       ExprStatement(Loc(22), BinaryExpr(BoolLiteral(TRUE), "Bool", "Or",     \* true || nope();
                                         Call("nope", <<>>))),
       ExprStatement(Loc(23), BinaryExpr(BoolLiteral(TRUE), "Bool", "And",    \* true && println(1);
                                         Call("println", <<IntLiteral(1)>>))),
       ExprStatement(Loc(24), BinaryExpr(BoolLiteral(FALSE), "Bool", "Or",    \* false || true;
                                         BoolLiteral(TRUE))),
       Noop(Loc(25)),                                              \* ;
       Assign(Loc(26), Identifier("x"), BoolLiteral(TRUE)),        \* x = true;
       VarDecl(Loc(27), "x", Identifier("nope"))                   \* let x = nope;
    >>

\* The field names of the script, for the orders of iteration
FieldNames == {"x", "y", "z"}
Orders == {<<"x", "y", "z">>, <<"x", "z", "y">>, <<"y", "x", "z">>,
           <<"y", "z", "x">>, <<"z", "x", "y">>, <<"z", "y", "x">>}

----------------------------------------------------------------------------
(* lexer.rs.  Characters are their code points and the input is a sequence *)
(* of bytes; a String is the sequence of its characters.  The classes of   *)
(* char are those of the ASCII range, which holds the inputs of the model.  *)

is_whitespace(c) == c \in {9, 10, 11, 12, 13, 32}
is_numeric(c) == c \in 48..57
is_alphabetic(c) == c \in (65..90) \cup (97..122)
is_alphanumeric(c) == is_alphabetic(c) \/ is_numeric(c)

\* '=' '(' ')' ';' '#' ',' '{' '}' '[' ']' '!' '>' '<' '&' '|' '+' '-' '*' '/'
is_operator(c) ==
    c \in {61, 40, 41, 59, 35, 44, 123, 125, 91, 93, 33, 62, 60, 38, 124, 43, 45, 42, 47}

Token(token_type, content, location) ==
    [token_type |-> token_type, content |-> content, location |-> location]

\* Lexer::new on a reader that holds the bytes of input; main names the
\* source "stdin"
Lexer_new(input) ==
    [reader |-> input, curr_char |-> 0, buffered_char |-> None,
     curr_location |-> Location_new_z(0, 0, "stdin"), line |-> 0, col |-> 0]

new_location(lx) == Location_new_z(lx.line, lx.col, lx.curr_location.file)

\* What a method of the lexer hands back: the lexer after it and its result
LexRet(lx, r) == [lx |-> lx, r |-> r]

\* std::str::from_utf8 on a sequence that starts with a byte above 0x7f
from_utf8(b) ==
    LET cont(x) == x \in 128..191 IN
    CASE Len(b) = 2 -> b[1] \in 194..223 /\ cont(b[2])
      [] Len(b) = 3 -> /\ b[1] \in 224..239 /\ cont(b[2]) /\ cont(b[3])
                       /\ (b[1] = 224 => b[2] >= 160)
                       /\ (b[1] = 237 => b[2] <= 159)
      [] Len(b) = 4 -> /\ b[1] \in 240..244 /\ cont(b[2]) /\ cont(b[3]) /\ cont(b[4])
                       /\ (b[1] = 240 => b[2] >= 144)
                       /\ (b[1] = 244 => b[2] <= 143)
      [] OTHER -> FALSE

\* The first char of a valid UTF-8 sequence of 2 to 4 bytes
first_char(b) ==
    CASE Len(b) = 2 -> (b[1] % 32) * 64 + (b[2] % 64)
      [] Len(b) = 3 -> (b[1] % 16) * 4096 + (b[2] % 64) * 64 + (b[3] % 64)
      [] Len(b) = 4 -> (b[1] % 8) * 262144 + (b[2] % 64) * 4096 + (b[3] % 64) * 64
                           + (b[4] % 64)

\* The methods of the lexer and the loops of next_token call one another
\* through lex, on the name of the method and its arguments.
RECURSIVE lex(_, _)
Lexer_next_char(lx) == lex(lx, [f |-> "next_char"])
Lexer_skip_whitespace(lx) == lex(lx, [f |-> "skip_whitespace"])
Lexer_scan(lx, buff, mode, no_next_char) ==
    lex(lx, [f |-> "scan", buff |-> buff, mode |-> mode, no_next_char |-> no_next_char])
Lexer_skip_comment(lx) == lex(lx, [f |-> "skip_comment"])
Lexer_next_token(lx) == lex(lx, [f |-> "next_token"])

\* Lexer::next_char
next_char(lx) ==
    IF is_some(lx.buffered_char)
    THEN LexRet([lx EXCEPT !.curr_char = unwrap(lx.buffered_char), !.buffered_char = None],
                OkUnit)
    ELSE LET l1 == [lx EXCEPT !.col = @ + 1] IN
    IF l1.reader = <<>> THEN LexRet(l1, Err([type |-> "EndOfFile"]))
    ELSE LET c == Head(l1.reader)
             l2 == [l1 EXCEPT !.reader = Tail(@)]
             newline(l) == IF l.curr_char = 10
                           THEN [l EXCEPT !.line = @ + 1, !.col = 0] ELSE l
         IN
    IF c < 128 THEN LexRet(newline([l2 EXCEPT !.curr_char = c]), OkUnit)
    ELSE LET sup_byte_count == IF (c \div 32) % 2 = 0 THEN 1
                               ELSE IF (c \div 16) % 2 = 0 THEN 2
                               ELSE IF (c \div 8) % 2 = 0 THEN 3
                               ELSE 0
         IN
    IF sup_byte_count = 0
    THEN LexRet(l2, Err([type |-> "Decoder", location |-> new_location(l2)]))
    ELSE IF Len(l2.reader) < sup_byte_count
    THEN LexRet([l2 EXCEPT !.reader = <<>>],
                Err([type |-> "UnexpectedEndOfFile", location |-> new_location(l2)]))
    ELSE LET string_buf == <<c>> \o SubSeq(l2.reader, 1, sup_byte_count)
             l3 == [l2 EXCEPT !.reader = SubSeq(@, sup_byte_count + 1, Len(@))]
         IN
    IF ~from_utf8(string_buf)
    THEN LexRet(l3, Err([type |-> "InvalidCodePoint", location |-> new_location(l3)]))
    ELSE LexRet(newline([l3 EXCEPT !.curr_char = first_char(string_buf)]), OkUnit)

\* LexerMode
Word == [m |-> "Word"]
Number == [m |-> "Number"]
StringMode(first, complete, escape) ==
    [m |-> "String", first |-> first, complete |-> complete, escape |-> escape]
Operator == [m |-> "Operator"]

\* What a handle_ method hands back: its result (Ok(complete) or an error)
\* with the buffer and the mode as it leaves them
Handled(r, buff, mode) == [r |-> r, buff |-> buff, mode |-> mode]

handle_word(lx, buff, mode) ==
    LET c == lx.curr_char IN
    IF buff # <<>> /\ ~is_alphanumeric(c) /\ c # 95
    THEN Handled(Ok(TRUE), buff, mode)
    ELSE Handled(Ok(FALSE), Append(buff, c), mode)

handle_number(lx, buff, mode) ==
    LET c == lx.curr_char IN
    IF ~is_numeric(c)
    THEN IF is_alphabetic(c) \/ c = 95
         THEN Handled(Err([type |-> "InvalidCharacter", location |-> new_location(lx),
                           char |-> c]),
                      buff, mode)
         ELSE Handled(Ok(TRUE), buff, mode)
    ELSE Handled(Ok(FALSE), Append(buff, c), mode)

handle_string(lx, buff, mode) ==
    LET c == lx.curr_char IN
    IF mode.complete THEN Handled(Ok(TRUE), buff, mode)
    ELSE IF c # QUOTE \/ mode.escape \/ mode.first
    THEN Handled(Ok(FALSE), Append(buff, c), StringMode(FALSE, mode.complete, FALSE))
    ELSE IF c = BACKSLASH
    THEN Handled(Ok(FALSE), Append(buff, c), StringMode(mode.first, mode.complete, TRUE))
    ELSE Handled(Ok(FALSE), Append(buff, c), StringMode(mode.first, TRUE, mode.escape))

handle_operator(lx, buff, mode) ==
    LET c == lx.curr_char IN
    IF buff = <<>> THEN Handled(Ok(FALSE), Append(buff, c), mode)
    ELSE IF Len(buff) > 2 THEN Handled(Ok(TRUE), buff, mode)
    ELSE IF Len(buff) = 2
    THEN IF buff = <<62, 62>> /\ c = 62                         \* ">>" and '>'
         THEN Handled(Ok(FALSE), Append(buff, c), mode)
         ELSE Handled(Ok(TRUE), buff, mode)
    ELSE IF buff[1] = 45 /\ is_numeric(c)                        \* '-'
    THEN Handled(Ok(FALSE), Append(buff, c), Number)
    ELSE IF buff[1] = c
    THEN IF c \in {45, 43, 61, 47, 38, 124}                      \* - + = / & |
         THEN Handled(Ok(FALSE), Append(buff, c), mode)
         ELSE Handled(Ok(TRUE), buff, mode)
    ELSE IF buff[1] \in {62, 60, 33} /\ c = 61                   \* > < ! and '='
    THEN Handled(Ok(FALSE), Append(buff, c), mode)
    ELSE Handled(Ok(TRUE), buff, mode)

finalize_word(lx, buff) ==
    IF buff \in {<<108, 101, 116>>, <<102, 110>>, <<105, 102>>}  \* let, fn, if
    THEN Ok(Token("Keyword", buff, lx.curr_location))
    ELSE IF buff \in {<<116, 114, 117, 101>>, <<102, 97, 108, 115, 101>>}   \* true, false
    THEN Ok(Token("BoolLiteral", buff, lx.curr_location))
    ELSE IF buff \in {<<64, 105, 110, 99, 108, 117, 100, 101>>,  \* @include
                      <<64, 101, 120, 101, 99>>}                 \* @exec
    THEN Ok(Token("SpecialInstruction", buff, lx.curr_location))
    ELSE IF buff # <<>> /\ buff[1] = 64                          \* '@'
    THEN Err([type |-> "UnknownSpecialInstruction", location |-> lx.curr_location,
              word |-> buff])
    ELSE Ok(Token("Identifier", buff, lx.curr_location))

finalize_number(lx, buff) == Ok(Token("IntegerLiteral", buff, lx.curr_location))
finalize_string(lx, buff) == Ok(Token("StringLiteral", buff, lx.curr_location))
finalize_operator(lx, buff) == Ok(Token("Operator", buff, lx.curr_location))

handle(lx, buff, mode) ==
    CASE mode.m = "Word" -> handle_word(lx, buff, mode)
      [] mode.m = "Number" -> handle_number(lx, buff, mode)
      [] mode.m = "String" -> handle_string(lx, buff, mode)
      [] mode.m = "Operator" -> handle_operator(lx, buff, mode)

finalize(lx, buff, mode) ==
    CASE mode.m = "Word" -> finalize_word(lx, buff)
      [] mode.m = "Number" -> finalize_number(lx, buff)
      [] mode.m = "String" -> finalize_string(lx, buff)
      [] mode.m = "Operator" -> finalize_operator(lx, buff)

\* next_token: the loop over the whitespace before the token
skip_whitespace(lx) ==
    IF ~is_whitespace(lx.curr_char) THEN LexRet(lx, OkUnit)
    ELSE LET n == Lexer_next_char(lx) IN
         IF ~IsOk(n.r) THEN n ELSE Lexer_skip_whitespace(n.lx)

\* next_token: the loop over the characters of the token.  The result of the
\* handler counts only when it is Ok(true): an error of the handler is
\* dropped and the loop goes on.  r is Ok of the buffer, the mode and
\* no_next_char at the break, or the error of next_char.
scan(lx, buff, mode, no_next_char) ==
    LET res == handle(lx, buff, mode) IN
    IF IsOk(res.r) /\ res.r.v
    THEN LexRet(lx, Ok([buff |-> res.buff, mode |-> res.mode,
                        no_next_char |-> no_next_char]))
    ELSE LET n == Lexer_next_char(lx) IN
         IF ~IsOk(n.r)
         THEN IF n.r.err.type = "EndOfFile"
              THEN LexRet(n.lx, Ok([buff |-> res.buff, mode |-> res.mode,
                                    no_next_char |-> TRUE]))
              ELSE n
         ELSE Lexer_scan(n.lx, res.buff, res.mode, FALSE)

\* next_token: the loop to the end of the line of a comment
skip_comment(lx) ==
    IF lx.curr_char = 10 THEN LexRet(lx, OkUnit)
    ELSE LET n == Lexer_next_char(lx) IN
         IF ~IsOk(n.r) THEN n ELSE Lexer_skip_comment(n.lx)

\* Lexer::next_token
next_token(lx) ==
    LET n == Lexer_next_char(lx) IN
    IF ~IsOk(n.r) THEN n
    ELSE LET w == Lexer_skip_whitespace(n.lx) IN
    IF ~IsOk(w.r) THEN w
    ELSE LET l1 == [w.lx EXCEPT !.curr_location = new_location(w.lx)]
             c == l1.curr_char
         IN
    IF ~(is_alphabetic(c) \/ c = 95 \/ c = 64 \/ is_numeric(c) \/ c = QUOTE \/ is_operator(c))
    THEN LexRet(l1, Err([type |-> "InvalidCharacter", location |-> l1.curr_location,
                         char |-> c]))
    ELSE LET mode == IF is_alphabetic(c) \/ c = 95 \/ c = 64 THEN Word
                     ELSE IF is_numeric(c) THEN Number
                     ELSE IF c = QUOTE THEN StringMode(TRUE, FALSE, FALSE)
                     ELSE Operator
             s == Lexer_scan(l1, <<>>, mode, TRUE)
         IN
    IF ~IsOk(s.r) THEN s
    ELSE LET res == finalize(s.lx, s.r.v.buff, s.r.v.mode)
             l2 == IF s.r.v.no_next_char THEN s.lx
                   ELSE [s.lx EXCEPT !.buffered_char = Some(s.lx.curr_char)]
         IN
    IF IsOk(res) /\ res.v.content = <<35>>                       \* "#"
    THEN LET k == Lexer_skip_comment(l2) IN
         IF ~IsOk(k.r) THEN k ELSE Lexer_next_token(k.lx)
    ELSE LexRet(l2, res)

lex(lx, what) ==
    CASE what.f = "next_char" -> next_char(lx)
      [] what.f = "skip_whitespace" -> skip_whitespace(lx)
      [] what.f = "scan" -> scan(lx, what.buff, what.mode, what.no_next_char)
      [] what.f = "skip_comment" -> skip_comment(lx)
      [] what.f = "next_token" -> next_token(lx)

----------------------------------------------------------------------------
(* parser/mod.rs.  A method of the parser hands back the parser after it   *)
(* and its result.  The statements it builds are those of this file:       *)
(* VarDecl, VarSet and FuncCall (by name), FuncDecl, If, StructDecl, Noop. *)

\* Parser::new
Parser_new(lexer) ==
    [lexer |-> lexer, current_token |-> None, lookahead_token |-> None,
     retain_last_token |-> FALSE]

ParRet(p, r) == [p |-> p, r |-> r]

\* ParserError
LexerError(err) == [type |-> "Lexer", err |-> err]
UnexpectedToken(tk, expected) == [type |-> "UnexpectedToken", tk |-> tk, expected |-> expected]
IntegerParsing(content) == [type |-> "IntegerParsing", content |-> content]
UnexpectedEndOfFile == [type |-> "UnexpectedEndOfFile"]
DuplicateStructMember(name) == [type |-> "DuplicateStructMember", name |-> name]

\* ParsedHighLevel::VarSet and ParsedHighLevel::FuncCall
VarSet(loc, name, val) == [s |-> "VarSet", location |-> loc, name |-> name, val |-> val]
FuncCallStatement(loc, name, args) ==
    [s |-> "FuncCall", location |-> loc, name |-> name, args |-> args]

\* The methods of the parser call one another through parse, on the name of
\* the method and its arguments.
RECURSIVE parse(_, _)
Parser_read_token(p) == parse(p, [f |-> "read_token"])
Parser_peek_token(p) == parse(p, [f |-> "peek_token"])
Parser_advance_token(p) == parse(p, [f |-> "advance_token"])
Parser_peek_or_fail(p) == parse(p, [f |-> "peek_or_fail"])
Parser_next_or_fail(p) == parse(p, [f |-> "next_or_fail"])
Parser_parse_arg_list(p, end_operator, idents) ==
    parse(p, [f |-> "parse_arg_list", end_operator |-> end_operator, idents |-> idents])
Parser_parse_struct_decl(p) == parse(p, [f |-> "parse_struct_decl"])
Parser_parse_var_decl_or_assign(p) == parse(p, [f |-> "parse_var_decl_or_assign"])
Parser_parse_block_loop(p, statements) ==
    parse(p, [f |-> "parse_block_loop", statements |-> statements])
Parser_parse_block(p) == parse(p, [f |-> "parse_block"])
Parser_parse_func_decl(p) == parse(p, [f |-> "parse_func_decl"])
Parser_parse_if_statement(p) == parse(p, [f |-> "parse_if_statement"])
Parser_parse_expr_list(p, end_operator, exprs) ==
    parse(p, [f |-> "parse_expr_list", end_operator |-> end_operator, exprs |-> exprs])
Parser_parse_array(p) == parse(p, [f |-> "parse_array"])
Parser_parse_struct_instanciation_loop(p, name, vars_init) ==
    parse(p, [f |-> "parse_struct_instanciation_loop", name |-> name, vars_init |-> vars_init])
Parser_parse_struct_instanciation_expr(p, name) ==
    parse(p, [f |-> "parse_struct_instanciation_expr", name |-> name])
Parser_parse_branch_identifier_expr(p) == parse(p, [f |-> "parse_branch_identifier_expr"])
Parser_parse_binary_expr(p, first_expr) ==
    parse(p, [f |-> "parse_binary_expr", first_expr |-> first_expr])
Parser_parse_first_expr(p, expr_start) ==
    parse(p, [f |-> "parse_first_expr", expr_start |-> expr_start])
Parser_parse_expr(p) == parse(p, [f |-> "parse_expr"])
Parser_next_package_keyword(p, token) ==
    parse(p, [f |-> "next_package_keyword", token |-> token])
Parser_next_package_identifier(p, token) ==
    parse(p, [f |-> "next_package_identifier", token |-> token])
Parser_next_package(p) == parse(p, [f |-> "next_package"])

read_token(p) ==
    LET res == Lexer_next_token(p.lexer)
        p1 == [p EXCEPT !.lexer = res.lx]
    IN IF IsOk(res.r) THEN ParRet(p1, Ok(Some(res.r.v)))
       ELSE IF res.r.err.type = "EndOfFile" THEN ParRet(p1, Ok(None))
       ELSE ParRet(p1, Err(LexerError(res.r.err)))

peek_token(p) ==
    IF is_some(p.lookahead_token) THEN ParRet(p, Ok(p.lookahead_token))
    ELSE LET t == Parser_read_token(p) IN
         IF ~IsOk(t.r) THEN t
         ELSE ParRet([t.p EXCEPT !.lookahead_token = t.r.v], Ok(t.r.v))

retain_token(p) == [p EXCEPT !.retain_last_token = TRUE]

\* Variant of advance_token that reads the lexer even when a token is held
\* in lookahead_token.
advance_token_reread(p) ==
    IF p.retain_last_token THEN ParRet([p EXCEPT !.retain_last_token = FALSE], OkUnit)
    ELSE LET t == Parser_read_token(p) IN
         IF ~IsOk(t.r) THEN t
         ELSE ParRet([t.p EXCEPT !.current_token = t.r.v, !.lookahead_token = None], OkUnit)

advance_token(p) ==
    IF p.retain_last_token THEN ParRet([p EXCEPT !.retain_last_token = FALSE], OkUnit)
    ELSE IF is_some(p.lookahead_token)
    THEN ParRet([p EXCEPT !.current_token = p.lookahead_token, !.lookahead_token = None],
                OkUnit)
    ELSE LET t == Parser_read_token(p) IN
         IF ~IsOk(t.r) THEN t
         ELSE ParRet([t.p EXCEPT !.current_token = t.r.v], OkUnit)

peek_or_fail(p) ==
    LET t == Parser_peek_token(p) IN
    IF ~IsOk(t.r) THEN t
    ELSE IF is_none(t.r.v) THEN ParRet(t.p, Err(UnexpectedEndOfFile))
    ELSE ParRet(t.p, Ok(unwrap(t.r.v)))

next_or_fail(p) ==
    LET a == Parser_advance_token(p) IN
    IF ~IsOk(a.r) THEN a
    ELSE IF is_none(a.p.current_token) THEN ParRet(a.p, Err(UnexpectedEndOfFile))
    ELSE ParRet(a.p, Ok(unwrap(a.p.current_token)))

unexpected_token(tk, expected) == Err(UnexpectedToken(tk, expected))

expect_token_type(tk, tk_type) ==
    IF tk.token_type # tk_type THEN unexpected_token(tk, Some(tk_type)) ELSE OkUnit

expect_token_content(tk, content) ==
    IF tk.content # content THEN unexpected_token(tk, Some(content)) ELSE OkUnit

expect_token(tk, tk_type, content) ==
    IF ~IsOk(expect_token_type(tk, tk_type)) THEN expect_token_type(tk, tk_type)
    ELSE expect_token_content(tk, content)

\* Whether tk is the operator with the given text
is_op(tk, content) == tk.token_type = "Operator" /\ tk.content = content

\* == <= >= > < != || && + - * /
is_binary_expr_operator(token) ==
    token \in {<<61, 61>>, <<60, 61>>, <<62, 61>>, <<62>>, <<60>>, <<33, 61>>,
               <<124, 124>>, <<38, 38>>, <<43>>, <<45>>, <<42>>, <<47>>}

\* TryFrom<Token> for BinaryOp (parser/types.rs)
BinaryOp_try_from(s) ==
    CASE s.content = <<61, 61>> -> Ok([class |-> "Compare", op |-> "Equal"])
      [] s.content = <<33, 61>> -> Ok([class |-> "Compare", op |-> "NotEqual"])
      [] s.content = <<60>> -> Ok([class |-> "Compare", op |-> "Less"])
      [] s.content = <<62>> -> Ok([class |-> "Compare", op |-> "Greater"])
      [] s.content = <<60, 61>> -> Ok([class |-> "Compare", op |-> "LessOrEqual"])
      [] s.content = <<62, 61>> -> Ok([class |-> "Compare", op |-> "GreaterOrEqual"])
      [] s.content = <<124, 124>> -> Ok([class |-> "Bool", op |-> "Or"])
      [] s.content = <<38, 38>> -> Ok([class |-> "Bool", op |-> "And"])
      [] s.content = <<43>> -> Ok([class |-> "Numerical", op |-> "Add"])
      [] s.content = <<45>> -> Ok([class |-> "Numerical", op |-> "Sub"])
      [] s.content = <<42>> -> Ok([class |-> "Numerical", op |-> "Mul"])
      [] s.content = <<47>> -> Ok([class |-> "Numerical", op |-> "Div"])
      [] OTHER -> Err(UnexpectedToken(s, Some("==, !=, <, <=, > or >=")))

RECURSIVE digits_value(_, _)
\* The number written by the digits ds after those that made acc
digits_value(ds, acc) ==
    IF ds = <<>> THEN acc ELSE digits_value(Tail(ds), acc * 10 + (Head(ds) - 48))

\* str::parse::<i64>: an optional sign, then digits, within the range of the
\* integer
parse_i64(content) ==
    LET signed == content # <<>> /\ Head(content) \in {43, 45}
        ds == IF signed THEN Tail(content) ELSE content
        n == IF signed /\ Head(content) = 45 THEN -digits_value(ds, 0) ELSE digits_value(ds, 0)
    IN IF ds = <<>> \/ \E i \in DOMAIN ds : ~(ds[i] \in 48..57) THEN Err("InvalidDigit")
       ELSE IF n > IntMax THEN Err("PosOverflow")
       ELSE IF n < IntMin THEN Err("NegOverflow")
       ELSE Ok(n)

\* parse_arg_list, idents holding the names read so far
parse_arg_list(p, end_operator, idents) ==
    LET next_tk == Parser_next_or_fail(p) IN
    IF ~IsOk(next_tk.r) THEN next_tk
    ELSE IF is_op(next_tk.r.v, end_operator) THEN ParRet(next_tk.p, Ok(idents))
    ELSE IF ~IsOk(expect_token_type(next_tk.r.v, "Identifier"))
    THEN ParRet(next_tk.p, expect_token_type(next_tk.r.v, "Identifier"))
    ELSE LET end_token == Parser_next_or_fail(next_tk.p)
             pushed == Append(idents, next_tk.r.v.content)
         IN
    IF ~IsOk(end_token.r) THEN end_token
    ELSE IF is_op(end_token.r.v, end_operator) THEN ParRet(end_token.p, Ok(pushed))
    ELSE IF ~IsOk(expect_token(end_token.r.v, "Operator", <<44>>))
    THEN ParRet(end_token.p, expect_token(end_token.r.v, "Operator", <<44>>))
    ELSE Parser_parse_arg_list(end_token.p, end_operator, pushed)

\* The first name that stands earlier in the list as well; None when there is
\* none
duplicate_member(names) ==
    LET dup == {i \in DOMAIN names : \E j \in 1..(i - 1) : names[j] = names[i]} IN
    IF dup = {} THEN None ELSE Some(names[CHOOSE i \in dup : \A j \in dup : i <= j])

parse_struct_decl(p) ==
    LET struct_keyword == Parser_next_or_fail(p) IN
    IF ~IsOk(struct_keyword.r) THEN struct_keyword
    ELSE IF ~IsOk(expect_token(struct_keyword.r.v, "Keyword", <<115, 116, 114, 117, 99, 116>>))
    THEN ParRet(struct_keyword.p,
                expect_token(struct_keyword.r.v, "Keyword", <<115, 116, 114, 117, 99, 116>>))
    ELSE LET struct_name == Parser_next_or_fail(struct_keyword.p) IN
    IF ~IsOk(struct_name.r) THEN struct_name
    ELSE IF ~IsOk(expect_token_type(struct_name.r.v, "Identifier"))
    THEN ParRet(struct_name.p, expect_token_type(struct_name.r.v, "Identifier"))
    ELSE LET struct_open == Parser_next_or_fail(struct_name.p) IN
    IF ~IsOk(struct_open.r) THEN struct_open
    ELSE IF ~IsOk(expect_token(struct_open.r.v, "Operator", <<123>>))
    THEN ParRet(struct_open.p, expect_token(struct_open.r.v, "Operator", <<123>>))
    ELSE LET unchecked_vars == Parser_parse_arg_list(struct_open.p, <<125>>, <<>>) IN
    IF ~IsOk(unchecked_vars.r) THEN unchecked_vars
    ELSE IF is_some(duplicate_member(unchecked_vars.r.v))
    THEN ParRet(unchecked_vars.p,
                Err(DuplicateStructMember(unwrap(duplicate_member(unchecked_vars.r.v)))))
    ELSE ParRet(unchecked_vars.p,
                Ok([name |-> struct_name.r.v.content,
                    vars |-> {unchecked_vars.r.v[i] : i \in DOMAIN unchecked_vars.r.v}]))

\* r.v is the VarAssign: name and val
parse_var_decl_or_assign(p) ==
    LET next_tk == Parser_next_or_fail(p) IN
    IF ~IsOk(next_tk.r) THEN next_tk
    ELSE LET name_tk == IF next_tk.r.v.content = <<108, 101, 116>>       \* let
                        THEN Parser_next_or_fail(next_tk.p) ELSE next_tk IN
    IF ~IsOk(name_tk.r) THEN name_tk
    ELSE IF ~IsOk(expect_token_type(name_tk.r.v, "Identifier"))
    THEN ParRet(name_tk.p, expect_token_type(name_tk.r.v, "Identifier"))
    ELSE LET assign_tk == Parser_next_or_fail(name_tk.p) IN
    IF ~IsOk(assign_tk.r) THEN assign_tk
    ELSE IF ~IsOk(expect_token(assign_tk.r.v, "Operator", <<61>>))
    THEN ParRet(assign_tk.p, expect_token(assign_tk.r.v, "Operator", <<61>>))
    ELSE LET val == Parser_parse_expr(assign_tk.p) IN
    IF ~IsOk(val.r) THEN val
    ELSE LET end_tk == Parser_next_or_fail(val.p) IN
    IF ~IsOk(end_tk.r) THEN end_tk
    ELSE IF ~IsOk(expect_token(end_tk.r.v, "Operator", <<59>>))
    THEN ParRet(end_tk.p, expect_token(end_tk.r.v, "Operator", <<59>>))
    ELSE ParRet(end_tk.p, Ok([name |-> name_tk.r.v.content, val |-> val.r.v]))

\* The loop of parse_block, statements holding those read so far
parse_block_loop(p, statements) ==
    LET next_tk == Parser_peek_or_fail(p) IN
    IF ~IsOk(next_tk.r) THEN next_tk
    ELSE IF is_op(next_tk.r.v, <<125>>)
    THEN LET a == Parser_advance_token(next_tk.p) IN
         IF ~IsOk(a.r) THEN a ELSE ParRet(a.p, Ok(statements))
    ELSE LET statement == Parser_next_package(next_tk.p) IN
    IF ~IsOk(statement.r) THEN statement
    ELSE IF is_none(statement.r.v) THEN ParRet(statement.p, Err(UnexpectedEndOfFile))
    ELSE Parser_parse_block_loop(statement.p, Append(statements, unwrap(statement.r.v)))

\* r.v is the StatementBlock: its statements
parse_block(p) ==
    LET block_start == Parser_next_or_fail(p) IN
    IF ~IsOk(block_start.r) THEN block_start
    ELSE IF ~IsOk(expect_token(block_start.r.v, "Operator", <<123>>))
    THEN ParRet(block_start.p, expect_token(block_start.r.v, "Operator", <<123>>))
    ELSE Parser_parse_block_loop(block_start.p, <<>>)

parse_func_decl(p) ==
    LET fn_keyword == Parser_next_or_fail(p) IN
    IF ~IsOk(fn_keyword.r) THEN fn_keyword
    ELSE IF ~IsOk(expect_token(fn_keyword.r.v, "Keyword", <<102, 110>>))
    THEN ParRet(fn_keyword.p, expect_token(fn_keyword.r.v, "Keyword", <<102, 110>>))
    ELSE LET func_identifier == Parser_next_or_fail(fn_keyword.p) IN
    IF ~IsOk(func_identifier.r) THEN func_identifier
    ELSE IF ~IsOk(expect_token_type(func_identifier.r.v, "Identifier"))
    THEN ParRet(func_identifier.p, expect_token_type(func_identifier.r.v, "Identifier"))
    ELSE LET parenth == Parser_next_or_fail(func_identifier.p) IN
    IF ~IsOk(parenth.r) THEN parenth
    ELSE IF ~IsOk(expect_token(parenth.r.v, "Operator", <<40>>))
    THEN ParRet(parenth.p, expect_token(parenth.r.v, "Operator", <<40>>))
    ELSE LET arg_list == Parser_parse_arg_list(parenth.p, <<41>>, <<>>) IN
    IF ~IsOk(arg_list.r) THEN arg_list
    ELSE LET block == Parser_parse_block(arg_list.p) IN
    IF ~IsOk(block.r) THEN block
    ELSE ParRet(block.p, Ok([name |-> func_identifier.r.v.content, args |-> arg_list.r.v,
                             statements |-> block.r.v]))

parse_if_statement(p) ==
    LET if_statement == Parser_next_or_fail(p) IN
    IF ~IsOk(if_statement.r) THEN if_statement
    ELSE IF ~IsOk(expect_token(if_statement.r.v, "Keyword", <<105, 102>>))
    THEN ParRet(if_statement.p, expect_token(if_statement.r.v, "Keyword", <<105, 102>>))
    ELSE LET if_cond == Parser_parse_expr(if_statement.p) IN
    IF ~IsOk(if_cond.r) THEN if_cond
    ELSE LET block == Parser_parse_block(if_cond.p) IN
    IF ~IsOk(block.r) THEN block
    ELSE ParRet(block.p, Ok([val |-> if_cond.r.v, statements |-> block.r.v]))

\* parse_expr_list, exprs holding the expressions read so far
parse_expr_list(p, end_operator, exprs) ==
    LET next_tk == Parser_peek_or_fail(p) IN
    IF ~IsOk(next_tk.r) THEN next_tk
    ELSE IF is_op(next_tk.r.v, end_operator)
    THEN LET a == Parser_advance_token(next_tk.p) IN
         IF ~IsOk(a.r) THEN a ELSE ParRet(a.p, Ok(exprs))
    ELSE LET e == Parser_parse_expr(next_tk.p) IN
    IF ~IsOk(e.r) THEN e
    ELSE LET end_token == Parser_next_or_fail(e.p) IN
    IF ~IsOk(end_token.r) THEN end_token
    ELSE IF is_op(end_token.r.v, end_operator)
    THEN ParRet(end_token.p, Ok(Append(exprs, e.r.v)))
    ELSE IF ~IsOk(expect_token(end_token.r.v, "Operator", <<44>>))
    THEN ParRet(end_token.p, expect_token(end_token.r.v, "Operator", <<44>>))
    ELSE Parser_parse_expr_list(end_token.p, end_operator, Append(exprs, e.r.v))

parse_array(p) ==
    LET expr_list == Parser_parse_expr_list(p, <<93>>, <<>>) IN
    IF ~IsOk(expr_list.r) THEN expr_list
    ELSE ParRet(expr_list.p, Ok(ArrayExpr(expr_list.r.v)))

\* The loop of parse_struct_instanciation_expr, vars_init holding the
\* initializers read so far
parse_struct_instanciation_loop(p, name, vars_init) ==
    LET next_tk == Parser_peek_or_fail(p) IN
    IF ~IsOk(next_tk.r) THEN next_tk
    ELSE IF is_op(next_tk.r.v, <<125>>)
    THEN LET a == Parser_advance_token(next_tk.p) IN
         IF ~IsOk(a.r) THEN a ELSE ParRet(a.p, Ok(StructInstanceExpr(name, vars_init)))
    ELSE LET field == Parser_next_or_fail(next_tk.p) IN
    IF ~IsOk(field.r) THEN field
    ELSE IF ~IsOk(expect_token_type(field.r.v, "Identifier"))
    THEN ParRet(field.p, expect_token_type(field.r.v, "Identifier"))
    ELSE LET separator == Parser_next_or_fail(field.p) IN
    IF ~IsOk(separator.r) THEN separator
    ELSE IF ~IsOk(expect_token(separator.r.v, "Operator", <<58>>))
    THEN ParRet(separator.p, expect_token(separator.r.v, "Operator", <<58>>))
    ELSE LET val == Parser_parse_expr(separator.p) IN
    IF ~IsOk(val.r) THEN val
    ELSE IF contains_key(vars_init, field.r.v.content)
    THEN ParRet(val.p, Err(DuplicateStructMember(name)))
    ELSE LET end_token == Parser_next_or_fail(val.p)
             inserted == insert(vars_init, field.r.v.content, val.r.v)
         IN
    IF ~IsOk(end_token.r) THEN end_token
    ELSE IF is_op(end_token.r.v, <<125>>)
    THEN ParRet(end_token.p, Ok(StructInstanceExpr(name, inserted)))
    ELSE IF ~IsOk(expect_token(end_token.r.v, "Operator", <<44>>))
    THEN ParRet(end_token.p, expect_token(end_token.r.v, "Operator", <<44>>))
    ELSE Parser_parse_struct_instanciation_loop(end_token.p, name, inserted)

parse_struct_instanciation_expr(p, name) ==
    LET instance_open == Parser_next_or_fail(p) IN
    IF ~IsOk(instance_open.r) THEN instance_open
    ELSE IF ~IsOk(expect_token(instance_open.r.v, "Operator", <<123>>))
    THEN ParRet(instance_open.p, expect_token(instance_open.r.v, "Operator", <<123>>))
    ELSE Parser_parse_struct_instanciation_loop(instance_open.p, name, EmptyMap)

parse_branch_identifier_expr(p) ==
    LET identifier == Parser_next_or_fail(p) IN
    IF ~IsOk(identifier.r) THEN identifier
    ELSE LET peeked == Parser_peek_or_fail(identifier.p) IN
    IF ~IsOk(peeked.r) THEN peeked
    ELSE IF peeked.r.v.content = <<40>>                                 \* "("
    THEN LET a == Parser_advance_token(peeked.p) IN
         IF ~IsOk(a.r) THEN a
         ELSE LET args == Parser_parse_expr_list(a.p, <<41>>, <<>>) IN
              IF ~IsOk(args.r) THEN args
              ELSE ParRet(args.p, Ok(Call(identifier.r.v.content, args.r.v)))
    ELSE IF peeked.r.v.content = <<123>>                                \* "{"
    THEN Parser_parse_struct_instanciation_expr(peeked.p, identifier.r.v.content)
    ELSE ParRet(peeked.p, Ok(Identifier(identifier.r.v.content)))

parse_binary_expr(p, first_expr) ==
    LET current_token == Parser_next_or_fail(p) IN
    IF ~IsOk(current_token.r) THEN current_token
    ELSE LET op == BinaryOp_try_from(current_token.r.v) IN
    IF ~IsOk(op) THEN ParRet(current_token.p, op)
    ELSE LET second_expr == Parser_parse_expr(current_token.p) IN
    IF ~IsOk(second_expr.r) THEN second_expr
    ELSE ParRet(second_expr.p, Ok(BinaryExpr(first_expr, op.v.class, op.v.op, second_expr.r.v)))

\* parse_expr from the match on the token that starts the expression
parse_first_expr(p, expr_start) ==
    CASE expr_start.token_type = "IntegerLiteral" ->
             LET n == parse_i64(expr_start.content) IN
             ParRet(p, IF IsOk(n) THEN Ok(IntLiteral(n.v))
                       ELSE Err(IntegerParsing(expr_start.content)))
      [] expr_start.token_type = "StringLiteral" ->
             ParRet(p, Ok(StringLiteral(expr_start.content)))
      [] expr_start.token_type = "BoolLiteral" ->
             ParRet(p, Ok(BoolLiteral(expr_start.content = <<116, 114, 117, 101>>)))
      [] is_op(expr_start, <<91>>) -> Parser_parse_array(p)                    \* "["
      [] OTHER -> ParRet(p, unexpected_token(expr_start, Some("expression")))

parse_expr(p) ==
    LET peeked == Parser_peek_or_fail(p) IN
    IF ~IsOk(peeked.r) THEN peeked
    ELSE IF peeked.r.v.token_type = "Identifier" THEN Parser_parse_branch_identifier_expr(peeked.p)
    ELSE LET expr_start == Parser_next_or_fail(peeked.p) IN
    IF ~IsOk(expr_start.r) THEN expr_start
    ELSE LET first_expr == Parser_parse_first_expr(expr_start.p, expr_start.r.v) IN
    IF ~IsOk(first_expr.r) THEN first_expr
    ELSE LET token == Parser_peek_token(first_expr.p) IN
    IF ~IsOk(token.r) THEN token
    ELSE IF is_some(token.r.v) /\ is_binary_expr_operator(unwrap(token.r.v).content)
    THEN Parser_parse_binary_expr(token.p, first_expr.r.v)
    ELSE ParRet(token.p, first_expr.r)

\* next_package on a statement that starts with a keyword
next_package_keyword(p, token) ==
    CASE token.content = <<108, 101, 116>> ->                           \* let
             LET d == Parser_parse_var_decl_or_assign(p) IN
             IF ~IsOk(d.r) THEN d
             ELSE ParRet(d.p, Ok(VarDecl(token.location, d.r.v.name, d.r.v.val)))
      [] token.content = <<102, 110>> ->                                \* fn
             LET d == Parser_parse_func_decl(p) IN
             IF ~IsOk(d.r) THEN d
             ELSE ParRet(d.p, Ok(FuncDecl(token.location, d.r.v.name, d.r.v.args,
                                          d.r.v.statements)))
      [] token.content = <<105, 102>> ->                                \* if
             LET d == Parser_parse_if_statement(p) IN
             IF ~IsOk(d.r) THEN d
             ELSE ParRet(d.p, Ok(IfStatement(token.location, d.r.v.val, d.r.v.statements)))
      [] token.content = <<115, 116, 114, 117, 99, 116>> ->             \* struct
             LET d == Parser_parse_struct_decl(p) IN
             IF ~IsOk(d.r) THEN d
             ELSE ParRet(d.p, Ok(StructDecl(token.location, d.r.v.name, d.r.v.vars)))
      [] OTHER ->
             IF is_none(p.current_token) THEN ParRet(p, Abort("panic: unwrap on None"))
             ELSE ParRet(p, unexpected_token(unwrap(p.current_token),
                                             Some("statement or function declaration")))

\* next_package on a statement that starts with an identifier
next_package_identifier(p, token) ==
    LET a == Parser_advance_token(p) IN
    IF ~IsOk(a.r) THEN a
    ELSE LET disc_tk == Parser_peek_or_fail(a.p) IN
    IF ~IsOk(disc_tk.r) THEN disc_tk
    ELSE IF ~IsOk(expect_token_type(disc_tk.r.v, "Operator"))
    THEN ParRet(disc_tk.p, expect_token_type(disc_tk.r.v, "Operator"))
    ELSE IF disc_tk.r.v.content = <<40>>                                \* "("
    THEN LET b == Parser_advance_token(disc_tk.p) IN
         IF ~IsOk(b.r) THEN b
         ELSE LET args == Parser_parse_expr_list(b.p, <<41>>, <<>>) IN
         IF ~IsOk(args.r) THEN args
         ELSE LET end_tk == Parser_next_or_fail(args.p) IN
         IF ~IsOk(end_tk.r) THEN end_tk
         ELSE IF ~IsOk(expect_token(end_tk.r.v, "Operator", <<59>>))
         THEN ParRet(end_tk.p, expect_token(end_tk.r.v, "Operator", <<59>>))
         ELSE ParRet(end_tk.p, Ok(FuncCallStatement(token.location, token.content, args.r.v)))
    ELSE IF disc_tk.r.v.content = <<61>>                                \* "="
    THEN LET d == Parser_parse_var_decl_or_assign(retain_token(disc_tk.p)) IN
         IF ~IsOk(d.r) THEN d
         ELSE ParRet(d.p, Ok(VarSet(token.location, d.r.v.name, d.r.v.val)))
    ELSE ParRet(disc_tk.p, unexpected_token(disc_tk.r.v, Some("( or =")))

\* Parser::next_package: r.v is None at the end of the input, Some of the
\* statement otherwise
next_package(p) ==
    LET peeked_token == Parser_peek_token(p) IN
    IF ~IsOk(peeked_token.r) THEN peeked_token
    ELSE IF is_none(peeked_token.r.v) THEN ParRet(peeked_token.p, Ok(None))
    ELSE LET token == unwrap(peeked_token.r.v)
             p1 == peeked_token.p
         IN
    IF token.token_type \notin {"Identifier", "Keyword"}
           /\ ~IsOk(expect_token(token, "Operator", <<59>>))
    THEN ParRet(p1, expect_token(token, "Operator", <<59>>))
    ELSE LET high_level ==
                 IF token.token_type = "Keyword" THEN Parser_next_package_keyword(p1, token)
                 ELSE IF token.token_type = "Operator"
                 THEN LET a == Parser_advance_token(p1) IN
                      IF ~IsOk(a.r) THEN a ELSE ParRet(a.p, Ok(Noop(token.location)))
                 ELSE Parser_next_package_identifier(p1, token)
         IN
    IF ~IsOk(high_level.r) THEN high_level
    ELSE ParRet(high_level.p, Ok(Some(high_level.r.v)))

parse(p, what) ==
    CASE what.f = "read_token" -> read_token(p)
      [] what.f = "peek_token" -> peek_token(p)
      [] what.f = "advance_token" -> advance_token(p)
      [] what.f = "peek_or_fail" -> peek_or_fail(p)
      [] what.f = "next_or_fail" -> next_or_fail(p)
      [] what.f = "parse_arg_list" -> parse_arg_list(p, what.end_operator, what.idents)
      [] what.f = "parse_struct_decl" -> parse_struct_decl(p)
      [] what.f = "parse_var_decl_or_assign" -> parse_var_decl_or_assign(p)
      [] what.f = "parse_block_loop" -> parse_block_loop(p, what.statements)
      [] what.f = "parse_block" -> parse_block(p)
      [] what.f = "parse_func_decl" -> parse_func_decl(p)
      [] what.f = "parse_if_statement" -> parse_if_statement(p)
      [] what.f = "parse_expr_list" -> parse_expr_list(p, what.end_operator, what.exprs)
      [] what.f = "parse_array" -> parse_array(p)
      [] what.f = "parse_struct_instanciation_loop" -> parse_struct_instanciation_loop(p, what.name, what.vars_init)
      [] what.f = "parse_struct_instanciation_expr" -> parse_struct_instanciation_expr(p, what.name)
      [] what.f = "parse_branch_identifier_expr" -> parse_branch_identifier_expr(p)
      [] what.f = "parse_binary_expr" -> parse_binary_expr(p, what.first_expr)
      [] what.f = "parse_first_expr" -> parse_first_expr(p, what.expr_start)
      [] what.f = "parse_expr" -> parse_expr(p)
      [] what.f = "next_package_keyword" -> next_package_keyword(p, what.token)
      [] what.f = "next_package_identifier" -> next_package_identifier(p, what.token)
      [] what.f = "next_package" -> next_package(p)

----------------------------------------------------------------------------
(* The driver (main.rs): the VM is constructed, then each statement parsed *)
(* is executed; an error of the VM is reported and the loop goes on.       *)

Init ==
    /\ vm = Vm_new
    /\ cells = <<>>
    /\ stdout = <<>>
    /\ trace = <<>>
    /\ last = Noop(VmLocation)
    /\ result = OkUnit
    /\ halted = FALSE
    /\ steps = 0
    /\ interactive = FALSE
    /\ parser = Parser_new(Lexer_new(<<>>))
    /\ parsed = Ok(None)

\* One iteration of the loop of main: exec_package on one statement; eof when
\* the statement is the last of the input, after which the loop breaks.
Exec(package, ord, checks, eof) ==
    /\ ~halted
    /\ steps < MaxSteps
    /\ LET Returned(o) == /\ vm' = o.st.vm
                          /\ cells' = o.st.cells
                          /\ stdout' = o.st.out
                          /\ trace' = o.st.trace
                          /\ result' = o.r
                          /\ halted' = (eof \/ o.r.k = "Abort")
       IN Returned(visit([vm |-> vm, cells |-> cells, out |-> stdout, trace |-> <<>>,
                          depth |-> 0, order |-> ord, overflow_checks |-> checks],
                         package))
    /\ last' = package
    /\ steps' = steps + 1
    /\ UNCHANGED <<interactive, parser, parsed>>

\* Whether the evaluation of an expression or a statement can reach a node of
\* the given kind ("StructInstance", or a Binary of class "Numerical").
RECURSIVE expr_uses(_, _), stmt_uses(_, _)
expr_uses(e, kind) ==
    \/ e.e = kind
    \/ /\ e.e = "Binary"
       /\ (e.class = kind \/ expr_uses(e.left, kind) \/ expr_uses(e.right, kind))
    \/ /\ e.e = "FuncCall"
       /\ (expr_uses(e.func_expr, kind) \/ \E i \in 1..Len(e.args) : expr_uses(e.args[i], kind))
    \/ /\ e.e = "Array"
       /\ \E i \in 1..Len(e.args) : expr_uses(e.args[i], kind)
    \/ /\ e.e = "StructInstance"
       /\ \E n \in DOMAIN e.vars_init : expr_uses(e.vars_init[n], kind)
stmt_uses(p, kind) ==
    \/ p.s \in {"VarDecl", "Assign", "If"} /\ expr_uses(p.val, kind)
    \/ p.s = "Assign" /\ expr_uses(p.target, kind)
    \/ p.s = "ExprStatement" /\ expr_uses(p.expr, kind)
    \/ /\ p.s \in {"If", "FuncDecl"}
       /\ \E i \in 1..Len(p.statements) : stmt_uses(p.statements[i], kind)
scope_uses(scope, kind) ==
    \E f \in DOMAIN scope.functions :
        \E i \in 1..Len(scope.functions[f].packages) :
            stmt_uses(scope.functions[f].packages[i], kind)
can_reach(package, kind) ==
    \/ stmt_uses(package, kind)
    \/ scope_uses(vm.global_scope, kind)
    \/ is_some(vm.stack_scope) /\ scope_uses(unwrap(vm.stack_scope), kind)

\* The orders of iteration and the builds that make a difference to a statement:
\* only a struct instantiation iterates, only arithmetic can overflow.
OrdersFor(package) ==
    IF can_reach(package, "StructInstance") THEN Orders ELSE {<<"x", "y", "z">>}
ChecksFor(package) ==
    IF can_reach(package, "Numerical") THEN BOOLEAN ELSE {TRUE}

ExecStatement ==
    /\ ~halted
    /\ \E i \in 1..Len(Script) :
           \E ord \in OrdersFor(Script[i]), checks \in ChecksFor(Script[i]) :
               Exec(Script[i], ord, checks, FALSE)

Next == ExecStatement

Spec == Init /\ [][Next]_vars

----------------------------------------------------------------------------
(* Comparisons: inputs made of statements that bind the variables the      *)
(* operands name, then one comparison statement `left op right;` over a    *)
(* set of operands, then the end of the input.                              *)

CompareSetup ==
    << VarDecl(Loc(1), "x", IntLiteral(1)),                        \* let x = 1;
       VarDecl(Loc(2), "y", Identifier("x")),                      \* let y = x;
       Assign(Loc(3), Identifier("x"), Identifier("x")),           \* x = x;
       StructDecl(Loc(4), "Point", {"x", "y"})                     \* struct Point { x, y }
    >>

Operands ==
    << IntLiteral(1), IntLiteral(2), BoolLiteral(FALSE), BoolLiteral(TRUE),
       Lit1, StringLiteral(<<QUOTE, 49, 50, QUOTE>>),              \* "1", "12"
       ArrayExpr(<<IntLiteral(1)>>),                               \* [1]
       ArrayExpr(<<IntLiteral(1), IntLiteral(2)>>),                \* [1, 2]
       ArrayExpr(<<IntLiteral(1), Lit1>>),                         \* [1, "1"]
       ArrayExpr(<<IntLiteral(2), Lit1>>),                         \* [2, "1"]
       Identifier("x"), Identifier("y"),
       ArrayExpr(<<Identifier("x")>>),                             \* [x]
       Call("println", <<>>),                                      \* println(): Unit
       StructInstanceExpr("Point", [x |-> IntLiteral(1), y |-> IntLiteral(2)])
    >>

CompareOps == {"Equal", "NotEqual", "Less", "LessOrEqual", "Greater", "GreaterOrEqual"}

ExecSetup ==
    \E i \in 1..Len(CompareSetup) : Exec(CompareSetup[i], <<"x", "y", "z">>, TRUE, FALSE)

ExecComparison ==
    /\ ~halted
    /\ \E i, j \in 1..Len(Operands), op \in CompareOps :
           LET package == ExprStatement(Loc(5), BinaryExpr(Operands[i], "Compare", op,
                                                          Operands[j]))
           IN \E ord \in OrdersFor(package) : Exec(package, ord, TRUE, TRUE)

NextCompare == ExecSetup \/ ExecComparison

SpecCompare == Init /\ [][NextCompare]_vars

----------------------------------------------------------------------------
(* Scopes: statements that bind a variable, a function and a struct in the *)
(* global scope and look them up from a body, from a block and from the    *)
(* top level, and statements that declare a function under the name of a   *)
(* builtin.                                                                *)

Nope(line) == ExprStatement(Loc(line), Call("nope", <<>>))            \* nope();

ScopeScript ==
    << VarDecl(Loc(1), "x", IntLiteral(1)),                        \* let x = 1;
       FuncDecl(Loc(2), "getx", <<>>,                              \* fn getx() { x; }
                <<ExprStatement(Loc(2), Identifier("x"))>>),
       ExprStatement(Loc(3), Call("getx", <<>>)),                  \* getx();
       ExprStatement(Loc(4), Identifier("x")),                     \* x;
       FuncDecl(Loc(5), "callgetx", <<>>,                          \* fn callgetx() { getx(); }
                <<ExprStatement(Loc(5), Call("getx", <<>>))>>),
       ExprStatement(Loc(6), Call("callgetx", <<>>)),              \* callgetx();
       StructDecl(Loc(7), "P", {"x"}),                             \* struct P { x }
       IfStatement(Loc(8), BoolLiteral(TRUE),                      \* if true { P { x: 1 }; }
                   <<ExprStatement(Loc(8), StructInstanceExpr("P", [x |-> IntLiteral(1)]))>>),
       ExprStatement(Loc(9), StructInstanceExpr("P", [x |-> IntLiteral(1)])),  \* P { x: 1 };
       IfStatement(Loc(10), BoolLiteral(TRUE),                     \* if true { x; }
                   <<ExprStatement(Loc(10), Identifier("x"))>>),
       FuncDecl(Loc(11), "outer", <<"a">>,           \* fn outer(a) { fn inner() { a; } inner(); }
                <<FuncDecl(Loc(11), "inner", <<>>, <<ExprStatement(Loc(11), Identifier("a"))>>),
                  ExprStatement(Loc(11), Call("inner", <<>>))>>),
       ExprStatement(Loc(12), Call("outer", <<IntLiteral(1)>>)),   \* outer(1);
       FuncDecl(Loc(13), "println", <<"a">>, <<Nope(13)>>),           \* fn println(a) { nope(); }
       ExprStatement(Loc(14), Call("println", <<IntLiteral(1)>>)), \* println(1);
       IfStatement(Loc(15), BoolLiteral(TRUE),       \* if true { fn typename(v) { nope(); }
                   <<FuncDecl(Loc(15), "typename", <<"v">>, <<Nope(15)>>),  \*  typename(1); }
                     ExprStatement(Loc(15), Call("typename", <<IntLiteral(1)>>))>>)
    >>

ExecScoped ==
    /\ ~halted
    /\ \E i \in 1..Len(ScopeScript) :
           \E ord \in OrdersFor(ScopeScript[i]), checks \in ChecksFor(ScopeScript[i]) :
               Exec(ScopeScript[i], ord, checks, FALSE)

NextScope == ExecScoped

SpecScope == Init /\ [][NextScope]_vars

----------------------------------------------------------------------------
(* String literals: each statement is one string literal, whose characters *)
(* between the quotes are drawn from backslash, q, n and a.                *)

StringChars == {BACKSLASH, 113, 110, 97}

StringLiterals ==
    {<<QUOTE>> \o inner \o <<QUOTE>> :
        inner \in UNION {[1..n -> StringChars] : n \in 0..MaxStringLen}}

ExecString ==
    /\ ~halted
    /\ \E raw \in StringLiterals :
           Exec(ExprStatement(Loc(1), StringLiteral(raw)), <<"x", "y", "z">>, TRUE, FALSE)

NextString == ExecString

SpecString == Init /\ [][NextString]_vars

----------------------------------------------------------------------------
(* The lexer on its own: the input is made of a few pieces of text, each a *)
(* word, an operator of the grammar, a digit or quote character, or white   *)
(* space; next_token is called until the end of the input.                 *)

Words ==
    {
     <<108, 101, 116>>,                           \* let
     <<102, 110>>,                                \* fn
     <<105, 102>>,                                \* if
     <<115, 116, 114, 117, 99, 116>>,             \* struct
     <<116, 114, 117, 101>>,                      \* true
     <<102, 97, 108, 115, 101>>,                  \* false
     <<64, 105, 110, 99, 108, 117, 100, 101>>,    \* @include
     <<64, 101, 120, 101, 99>>,                   \* @exec
     <<64, 105, 110, 99>>,                        \* @inc
     <<120>>,                                     \* x
     <<95, 97, 49>>                              \* _a1
    }

\* The operators of the grammar
GrammarOperators ==
    {
     <<61>>,                                      \* =
     <<61, 61>>,                                  \* ==
     <<33, 61>>,                                  \* !=
     <<60>>,                                      \* <
     <<60, 61>>,                                  \* <=
     <<62>>,                                      \* >
     <<62, 61>>,                                  \* >=
     <<38, 38>>,                                  \* &&
     <<124, 124>>,                                \* ||
     <<43>>,                                      \* +
     <<45>>,                                      \* -
     <<42>>,                                      \* *
     <<47>>,                                      \* /
     <<40>>,                                      \* (
     <<41>>,                                      \* )
     <<123>>,                                     \* {
     <<125>>,                                     \* }
     <<91>>,                                      \* [
     <<93>>,                                      \* ]
     <<44>>,                                      \* ,
     <<59>>,                                      \* ;
     <<58>>,                                      \* :
     <<35>>                                      \* #
    }

OtherPieces ==
    {<<49>>, <<50, 51>>, <<QUOTE>>, <<BACKSLASH>>, <<32>>, <<10>>}    \* 1 23 " \ space newline

Pieces == Words \cup GrammarOperators \cup OtherPieces

RECURSIVE concat(_)
concat(pieces) == IF pieces = <<>> THEN <<>> ELSE Head(pieces) \o concat(Tail(pieces))

LexerInputs == {concat(ps) : ps \in UNION {[1..n -> Pieces] : n \in 0..MaxPieces}}

\* The characters the lexer has yet to see: the one it holds back, then those
\* of the reader
unread(lx) == lx.buffered_char \o lx.reader

InitLexer ==
    /\ vm = Vm_new
    /\ cells = <<>>
    /\ stdout = <<>>
    /\ trace = <<>>
    /\ last = Noop(VmLocation)
    /\ result = OkUnit
    /\ halted = FALSE
    /\ steps = 0
    /\ interactive = FALSE
    /\ \E input \in LexerInputs : parser = Parser_new(Lexer_new(input))
    /\ parsed = Ok(None)

\* One call of next_token; the end of the input ends the run.
NextToken ==
    /\ ~halted
    /\ LET o == Lexer_next_token(parser.lexer) IN
          /\ parser' = [parser EXCEPT !.lexer = o.lx]
          /\ parsed' = o.r
          /\ trace' = <<[ev |-> "next_token", text |-> unread(parser.lexer), res |-> o.r]>>
          /\ halted' = (~IsOk(o.r) /\ o.r.err.type = "EndOfFile")
    /\ UNCHANGED <<vm, cells, stdout, last, result, steps, interactive>>

NextLexer == NextToken

SpecLexer == InitLexer /\ [][NextLexer]_vars

----------------------------------------------------------------------------
(* The parser on the lexer: the input is an integer literal followed by a  *)
(* semicolon, a declaration `let v = ` of an integer literal, or one of a  *)
(* few other statements; next_package is called as main calls it, until   *)
(* the end of the input or, the input being a file, the first error.      *)

RECURSIVE decimal_digits(_)
\* The decimal digits of a natural number
decimal_digits(n) ==
    IF n < 10 THEN <<48 + n>> ELSE Append(decimal_digits(n \div 10), 48 + (n % 10))

\* The integer literal that denotes n
decimal(n) == IF n < 0 THEN <<45>> \o decimal_digits(-n) ELSE decimal_digits(n)

\* The integers of the literals: the range of the machine integer and one
\* more on either side
LiteralValues == (IntMin - 1)..(IntMax + 1)

OtherStatements ==
    {
     <<120, 32, 61, 32, 49, 32, 43, 32, 97, 59>>,    \* x = 1 + a;
     <<120, 32, 61, 32, 97, 32, 43, 32, 49, 59>>,    \* x = a + 1;
     <<102, 40, 49, 41, 32, 59>>,    \* f(1) ;
     <<105, 102, 32, 98, 32, 123, 32, 102, 40, 41, 59, 32, 125>>,    \* if b { f(); }
     <<115, 116, 114, 117, 99, 116, 32, 80, 32, 123, 32, 120, 32, 125>>,    \* struct P { x }
     <<120, 32, 61, 32, 91, 49, 44, 32, 45, 50, 93, 59>>,    \* x = [1, -2];
     <<102, 110, 32, 102, 40, 97, 41, 32, 123, 32, 97, 32, 61, 32, 49, 59, 32, 125>>,    \* fn f(a) { a = 1; }
     <<59>>,    \* ;
     <<108, 101, 116, 32, 115, 32, 61, 32, 34, 97, 34, 59>>,    \* let s = "a";
     <<120, 32, 61, 32, 49>>    \* x = 1
    }

ParserInputs ==
    {decimal(n) \o <<59>> : n \in LiteralValues}                             \* n;
        \cup {<<108, 101, 116, 32, 118, 32, 61, 32>> \o decimal(n) \o <<59>> :   \* let v = n;
                  n \in LiteralValues}
        \cup OtherStatements

InitParser ==
    /\ vm = Vm_new
    /\ cells = <<>>
    /\ stdout = <<>>
    /\ trace = <<>>
    /\ last = Noop(VmLocation)
    /\ result = OkUnit
    /\ halted = FALSE
    /\ steps = 0
    /\ interactive = FALSE
    /\ \E input \in ParserInputs : parser = Parser_new(Lexer_new(input))
    /\ parsed = Ok(None)

\* One call of next_package by the loop of main, which ends at the end of the
\* input and, the input being a file, at an error of the parser.
NextPackage ==
    /\ ~halted
    /\ LET o == Parser_next_package(parser) IN
          /\ parser' = o.p
          /\ parsed' = o.r
          /\ trace' = <<[ev |-> "next_package", text |-> unread(parser.lexer),
                         lookahead_token |-> parser.lookahead_token, res |-> o.r]>>
          /\ halted' = (~IsOk(o.r) \/ is_none(o.r.v))
    /\ UNCHANGED <<vm, cells, stdout, last, result, steps, interactive>>

NextParser == NextPackage

SpecParser == InitParser /\ [][NextParser]_vars

----------------------------------------------------------------------------
(* The loop of main in both modes: each iteration asks the parser for the  *)
(* next statement, which is a statement (handed to the VM), the end of the *)
(* input, or an error of the parser.                                       *)

DriverScript ==
    << VarDecl(Loc(1), "x", IntLiteral(1)),                        \* let x = 1;
       ExprStatement(Loc(2), Identifier("x")),                     \* x;
       ExprStatement(Loc(3), Identifier("nope")),                  \* nope;
       ExprStatement(Loc(4), Call("println", <<Identifier("x")>>)),\* println(x);
       Assign(Loc(5), Identifier("x"), IntLiteral(2))              \* x = 2;
    >>

\* An error of the parser, as main sees it (it only prints it)
ParserError == [stage |-> "parser"]

InitDriver ==
    /\ vm = Vm_new
    /\ cells = <<>>
    /\ stdout = <<>>
    /\ trace = <<>>
    /\ last = Noop(VmLocation)
    /\ result = OkUnit
    /\ halted = FALSE
    /\ steps = 0
    /\ interactive \in BOOLEAN
    /\ parser = Parser_new(Lexer_new(<<>>))
    /\ parsed = Ok(None)

\* next_package returns Ok(Some(p)): exec_package(p); an error is printed
DriverExec ==
    /\ ~halted
    /\ \E i \in 1..Len(DriverScript) : Exec(DriverScript[i], <<"x", "y", "z">>, TRUE, FALSE)

\* next_package returns Ok(None): break
DriverEnd ==
    /\ ~halted
    /\ halted' = TRUE
    /\ UNCHANGED <<vm, cells, stdout, trace, last, result, steps, interactive, parser, parsed>>

\* next_package returns Err(err): the error is printed; break unless interactive
DriverParseError ==
    /\ ~halted
    /\ steps < MaxSteps
    /\ result' = Err(ParserError)
    /\ trace' = <<>>
    /\ halted' = ~interactive
    /\ steps' = steps + 1
    /\ UNCHANGED <<vm, cells, stdout, last, interactive, parser, parsed>>

NextDriver == DriverExec \/ DriverEnd \/ DriverParseError

SpecDriver == InitDriver /\ [][NextDriver]_vars

----------------------------------------------------------------------------
(* Variables: statements that declare a variable from another variable,    *)
(* assign to either of them and read them, and statements that use a       *)
(* variable as the operand of an operator or as the condition of an if.    *)

VarScript ==
    << VarDecl(Loc(1), "x", IntLiteral(1)),                        \* let x = 1;
       VarDecl(Loc(2), "y", Identifier("x")),                      \* let y = x;
       Assign(Loc(3), Identifier("x"), IntLiteral(2)),             \* x = 2;
       Assign(Loc(4), Identifier("y"), IntLiteral(5)),             \* y = 5;
       ExprStatement(Loc(5), Identifier("y")),                     \* y;
       ExprStatement(Loc(6), Identifier("x")),                     \* x;
       VarDecl(Loc(7), "z", Identifier("y")),                      \* let z = y;
       Assign(Loc(8), Identifier("x"), BoolLiteral(TRUE)),         \* x = true;
       ExprStatement(Loc(9), BinaryExpr(IntLiteral(1), "Numerical", "Add",    \* 1 + x;
                                        Identifier("x"))),
       ExprStatement(Loc(10), BinaryExpr(Identifier("x"), "Numerical", "Mul", \* x * 3;
                                         IntLiteral(3))),
       ExprStatement(Loc(11), BinaryExpr(IntLiteral(1), "Numerical", "Add",   \* 1 + 2;
                                         IntLiteral(2))),
       VarDecl(Loc(12), "b", BoolLiteral(TRUE)),                   \* let b = true;
       IfStatement(Loc(13), Identifier("b"),                       \* if b { println(1); }
                   <<ExprStatement(Loc(13), Call("println", <<IntLiteral(1)>>))>>),
       ExprStatement(Loc(14), BinaryExpr(Identifier("b"), "Bool", "And",      \* b && true;
                                         BoolLiteral(TRUE))),
       ExprStatement(Loc(15), BinaryExpr(BoolLiteral(FALSE), "Bool", "Or",    \* false || b;
                                         Identifier("b"))),
       ExprStatement(Loc(16), BinaryExpr(BoolLiteral(TRUE), "Bool", "And",    \* true && 1;
                                         IntLiteral(1)))
    >>

ExecVar ==
    /\ ~halted
    /\ \E i \in 1..Len(VarScript) :
           \E ord \in OrdersFor(VarScript[i]), checks \in ChecksFor(VarScript[i]) :
               Exec(VarScript[i], ord, checks, FALSE)

NextVar == ExecVar

SpecVar == Init /\ [][NextVar]_vars

----------------------------------------------------------------------------
(* Arithmetic: statements `let q = a op b;` whose left operand is an       *)
(* integer literal and whose right operand is a literal or a difference of *)
(* literals, over the values at the ends of the range and around zero, in  *)
(* a build with and in a build without overflow checks.                     *)

NumLeft == {0, 1, IntMax}
NumRight ==
    { IntLiteral(0), IntLiteral(1), IntLiteral(IntMax),
      BinaryExpr(IntLiteral(0), "Numerical", "Sub", IntLiteral(1)),          \* 0 - 1
      BinaryExpr(IntLiteral(0), "Numerical", "Sub", IntLiteral(IntMax)) }    \* 0 - MAX
NumOps == {"Add", "Sub", "Mul", "Div"}

ExecNumeric ==
    /\ ~halted
    /\ \E a \in NumLeft, b \in NumRight, op \in NumOps, checks \in BOOLEAN :
           Exec(VarDecl(Loc(steps + 1), "q", BinaryExpr(IntLiteral(a), "Numerical", op, b)),
                <<"x", "y", "z">>, checks, FALSE)

NextNum == ExecNumeric

SpecNum == Init /\ [][NextNum]_vars

----------------------------------------------------------------------------
(* Expressions: the input is an assignment `x = primary op right;` for     *)
(* each kind of primary expression, or an if-statement `if cond { f(); }`; *)
(* next_package is called as main calls it.                                 *)

\* The primary expressions, each with its text
Primaries ==
    << [text |-> <<49>>, expr |-> IntLiteral(1)],                               \* 1
       [text |-> <<QUOTE, 97, QUOTE>>, expr |-> StringLiteral(<<QUOTE, 97, QUOTE>>)],   \* "a"
       [text |-> <<116, 114, 117, 101>>, expr |-> BoolLiteral(TRUE)],           \* true
       [text |-> <<91, 49, 93>>, expr |-> ArrayExpr(<<IntLiteral(1)>>)],        \* [1]
       [text |-> <<97>>, expr |-> Identifier(<<97>>)],                          \* a
       [text |-> <<102, 40, 49, 41>>, expr |-> Call(<<102>>, <<IntLiteral(1)>>)] \* f(1)
    >>

\* Binary operators, one of each class, each with its text
BinaryOps ==
    << [text |-> <<43>>, class |-> "Numerical", op |-> "Add"],                  \* +
       [text |-> <<61, 61>>, class |-> "Compare", op |-> "Equal"],              \* ==
       [text |-> <<38, 38>>, class |-> "Bool", op |-> "And"],                   \* &&
       [text |-> <<47>>, class |-> "Numerical", op |-> "Div"]                   \* /
    >>

\* The expressions on the right of the operator, each with its text
RightExprs ==
    << [text |-> <<50>>, expr |-> IntLiteral(2)],                               \* 2
       [text |-> <<98>>, expr |-> Identifier(<<98>>)]                           \* b
    >>

\* x = left op right;
BinaryText(left, op, right) ==
    <<120, 32, 61, 32>> \o left.text \o <<32>> \o op.text \o <<32>> \o right.text \o <<59>>

\* The conditions of the if-statements, each with its text
Conditions ==
    << [text |-> <<102, 108, 97, 103>>, expr |-> Identifier(<<102, 108, 97, 103>>)],    \* flag
       [text |-> <<49, 32, 61, 61, 32, 102, 108, 97, 103>>,                             \* 1 == flag
        expr |-> BinaryExpr(IntLiteral(1), "Compare", "Equal",
                            Identifier(<<102, 108, 97, 103>>))],
       [text |-> <<116, 114, 117, 101>>, expr |-> BoolLiteral(TRUE)],                   \* true
       [text |-> <<102, 40, 41>>, expr |-> Call(<<102>>, <<>>)]                         \* f()
    >>

\* if cond { f(); }
IfText(cond) ==
    <<105, 102, 32>> \o cond.text \o <<32, 123, 32, 102, 40, 41, 59, 32, 125>>

ExprInputs ==
    {BinaryText(Primaries[i], BinaryOps[j], RightExprs[k]) :
         i \in DOMAIN Primaries, j \in DOMAIN BinaryOps, k \in DOMAIN RightExprs}
        \cup {IfText(Conditions[i]) : i \in DOMAIN Conditions}

InitExpr ==
    /\ vm = Vm_new
    /\ cells = <<>>
    /\ stdout = <<>>
    /\ trace = <<>>
    /\ last = Noop(VmLocation)
    /\ result = OkUnit
    /\ halted = FALSE
    /\ steps = 0
    /\ interactive = FALSE
    /\ \E input \in ExprInputs : parser = Parser_new(Lexer_new(input))
    /\ parsed = Ok(None)

SpecExpr == InitExpr /\ [][NextParser]_vars

----------------------------------------------------------------------------
(* The token cursor of the parser: on an input of a few tokens, any        *)
(* sequence of at most MaxOps calls of peek_token, advance_token and       *)
(* retain_token, as the methods of the parser make them.  The history in   *)
(* `trace` has one event per call, with the parser before and after it.    *)

CursorInputs ==
    {
     <<>>,                                        \* the empty input
     <<97, 32, 98>>,                              \* a b
     <<120, 32, 61, 32, 49, 59>>,                 \* x = 1;
     <<49, 32, 58, 32, 50>>,                      \* 1 : 2   (`:` is no character of a token)
     <<102, 40, 41, 32, 35, 99, 10, 59>>          \* f() #c\n;
    }

InitCursor ==
    /\ vm = Vm_new
    /\ cells = <<>>
    /\ stdout = <<>>
    /\ trace = <<>>
    /\ last = Noop(VmLocation)
    /\ result = OkUnit
    /\ halted = FALSE
    /\ steps = 0
    /\ interactive = FALSE
    /\ \E input \in CursorInputs : parser = Parser_new(Lexer_new(input))
    /\ parsed = Ok(None)

\* The call of a method of the cursor that returns o
Called(op, o) ==
    /\ parser' = o.p
    /\ parsed' = o.r
    /\ trace' = Append(trace, [op |-> op, p0 |-> parser, p1 |-> o.p, res |-> o.r])
    /\ steps' = steps + 1
    /\ UNCHANGED <<vm, cells, stdout, last, result, halted, interactive>>

CursorPeek ==
    /\ ~halted
    /\ steps < MaxOps
    /\ Called("peek", Parser_peek_token(parser))

CursorAdvance ==
    /\ ~halted
    /\ steps < MaxOps
    /\ Called("advance", Parser_advance_token(parser))

CursorRetain ==
    /\ ~halted
    /\ steps < MaxOps
    /\ Called("retain", ParRet(retain_token(parser), OkUnit))

NextCursor == CursorPeek \/ CursorAdvance \/ CursorRetain

SpecCursor == InitCursor /\ [][NextCursor]_vars

----------------------------------------------------------------------------
(* The lexer on every input of at most MaxChars bytes over a few bytes: a  *)
(* quote, a backslash, a letter, a digit, an underscore, the comment       *)
(* marker, a line feed and a byte that starts no UTF-8 sequence.           *)
(* next_token is called until the end of the input; the history in `trace` *)
(* has one event per call.                                                  *)

LexAlphabet == {QUOTE, BACKSLASH, 97, 49, 95, 35, 10, 255}      \* " \ a 1 _ # \n 0xFF

CharInputs == UNION {[1..n -> LexAlphabet] : n \in 0..MaxChars}

InitChars ==
    /\ vm = Vm_new
    /\ cells = <<>>
    /\ stdout = <<>>
    /\ trace = <<>>
    /\ last = Noop(VmLocation)
    /\ result = OkUnit
    /\ halted = FALSE
    /\ steps = 0
    /\ interactive = FALSE
    /\ \E input \in CharInputs : parser = Parser_new(Lexer_new(input))
    /\ parsed = Ok(None)

\* One call of next_token; the end of the input ends the run.
NextTokenOfChars ==
    /\ ~halted
    /\ LET Returned(o) ==
               /\ parser' = [parser EXCEPT !.lexer = o.lx]
               /\ parsed' = o.r
               /\ trace' = Append(trace, [ev |-> "next_token",
                                          text |-> unread(parser.lexer), res |-> o.r])
               /\ halted' = (~IsOk(o.r) /\ o.r.err.type = "EndOfFile")
       IN Returned(Lexer_next_token(parser.lexer))
    /\ UNCHANGED <<vm, cells, stdout, last, result, steps, interactive>>

NextChars == NextTokenOfChars

SpecChars == InitChars /\ [][NextChars]_vars

----------------------------------------------------------------------------
(* Builtins: statements that call typename and env with no argument, with  *)
(* one and with more, and statements that keep or print what they return.  *)

LitH == StringLiteral(<<QUOTE, 72, QUOTE>>)    \* "H"

BuiltinScript ==
    << ExprStatement(Loc(1), Call("typename", <<>>)),                           \* typename();
       ExprStatement(Loc(2), Call("typename", <<IntLiteral(1)>>)),              \* typename(1);
       ExprStatement(Loc(3), Call("typename", <<IntLiteral(1), IntLiteral(2)>>)),   \* typename(1, 2);
       ExprStatement(Loc(4), Call("typename",                                   \* typename(1, 2, true);
                                  <<IntLiteral(1), IntLiteral(2), BoolLiteral(TRUE)>>)),
       ExprStatement(Loc(5), Call("env", <<>>)),                                \* env();
       ExprStatement(Loc(6), Call("env", <<LitH>>)),                            \* env("H");
       ExprStatement(Loc(7), Call("env", <<LitH, Lit1>>)),                      \* env("H", "1");
       ExprStatement(Loc(8), Call("env", <<LitH, Lit1, IntLiteral(2)>>)),       \* env("H", "1", 2);
       ExprStatement(Loc(9), Call("env", <<Lit1>>)),                            \* env("1");
       ExprStatement(Loc(10), Call("env", <<IntLiteral(1)>>)),                  \* env(1);
       VarDecl(Loc(11), "t", Call("typename", <<BoolLiteral(TRUE)>>)),          \* let t = typename(true);
       VarDecl(Loc(12), "e", Call("env", <<LitH>>)),                            \* let e = env("H");
       ExprStatement(Loc(13), Call("println", <<Call("typename", <<Lit1>>)>>))  \* println(typename("1"));
    >>

ExecBuiltin ==
    /\ ~halted
    /\ \E i \in 1..Len(BuiltinScript) : Exec(BuiltinScript[i], <<"x", "y", "z">>, TRUE, FALSE)

NextBuiltin == ExecBuiltin

SpecBuiltin == Init /\ [][NextBuiltin]_vars

----------------------------------------------------------------------------
(* Properties. The history in `trace` is that of the last statement the    *)
(* driver executed: each property over it holds for every statement of     *)
(* every run.                                                               *)

\* The expressions whose evaluation began at depth d, among the events from
\* the index `from` to the index `to`, in order.
EvalsAt(from, to, d) ==
    SelectSeq(SubSeq(trace, from, to), LAMBDA e : e.ev = "eval" /\ e.depth = d)

\* C1: when a call of a user function returns (normally, with an error of its
\* body, or with an argument-count error), the scope that was current before
\* the call is current again.
C1_ScopeRestoredAfterCall ==
    \A j \in DOMAIN trace :
        (trace[j].ev = "ret" /\ trace[j].res.k \in {"Ok", "Err"})
            => trace[j].post = trace[j].pre

\* C2: when eval_if returns from an if whose condition is true (with success
\* or with an error of the block), the scope that was current before the
\* if is current again.
C2_ScopeRestoredAfterIf ==
    \A j \in DOMAIN trace :
        (trace[j].ev = "if_ret" /\ trace[j].res.k \in {"Ok", "Err"})
            => trace[j].post = trace[j].pre

\* C3: a call of a user function returns the value of the first statement of
\* its body that yields one (an expression statement that evaluates), and no
\* statement of the body after that one is executed.
C3_CallReturnsFirstValue ==
    \A j \in DOMAIN trace :
        (trace[j].ev = "ret" /\ trace[j].res.k \in {"Ok", "Err"}) =>
            LET d == trace[j].depth
                yields == {k \in trace[j].from..j :
                              /\ trace[k].ev = "exec_ret"
                              /\ trace[k].depth = d
                              /\ is_some(trace[k].value)}
            IN yields # {} =>
                   LET first == CHOOSE k \in yields : \A m \in yields : k <= m IN
                   /\ trace[j].res = Ok(unwrap(trace[first].value))
                   /\ \A k \in (first + 1)..j :
                          ~(trace[k].ev = "exec" /\ trace[k].depth = d)

\* The variant a literal stands for
IsLiteral(e) == e.e \in {"IntLiteral", "BoolLiteral"}
LitVariant(e) ==
    IF e.e = "IntLiteral" THEN [t |-> "Integer", i |-> e.int] ELSE [t |-> "Bool", b |-> e.bool]

\* A `let name = literal;` or a `name = literal;` and the name it writes
StoresLiteral(p) ==
    /\ p.s \in {"VarDecl", "Assign"}
    /\ IsLiteral(p.val)
    /\ p.s = "Assign" => p.target.e = "Identifier"
VarName(p) == IF p.s = "VarDecl" THEN p.name ELSE p.target.name

\* The last statement stored a literal in a variable: the variable is bound in
\* the current scope and its cell holds that value.
C4_AssignedIsStored ==
    (StoresLiteral(last) /\ IsOk(result)) =>
        LET scope == get_scope(vm) IN
        /\ VarName(last) \in DOMAIN scope.variables
        /\ cells[scope.variables[VarName(last)]] = LitVariant(last.val)

\* A statement that reads the variable right after a statement that stored a
\* literal in it: the read evaluates to a reference to a cell that holds the
\* value stored.
C4_ReadAfterAssign ==
    (/\ StoresLiteral(last) /\ IsOk(result)
     /\ last'.s = "ExprStatement"
     /\ last'.expr = [e |-> "Identifier", name |-> VarName(last)])
        => LET read == trace'[Len(trace')].value IN
           /\ is_some(read)
           /\ unwrap(read).t = "Ref"
           /\ cells'[unwrap(read).r] = LitVariant(last.val)

\* C4: after a variable is declared with let and assigned any sequence of
\* values in the same scope, reading it yields the value assigned last: each
\* successful declaration or assignment leaves its value in the cell of the
\* variable, and a read that follows it yields that value.
C4_ReadYieldsLastAssigned == []C4_AssignedIsStored /\ [][C4_ReadAfterAssign]_vars

\* C4 happens: x has been assigned 2 (only `x = 2;` stores 2) and is then read.
C4_Witness ==
    /\ last.s = "ExprStatement" /\ last.expr = [e |-> "Identifier", name |-> "x"]
    /\ IsOk(result)
    /\ "x" \in DOMAIN get_scope(vm).variables
    /\ cells[get_scope(vm).variables["x"]] = [t |-> "Integer", i |-> 2]
    /\ trace[Len(trace)].value = <<[t |-> "Ref", r |-> get_scope(vm).variables["x"]]>>

\* The statement about to run is a let of a name already bound in the current
\* scope, shadowing being disabled.
DupLet ==
    /\ last'.s = "VarDecl"
    /\ ~vm.allow_var_shadowing
    /\ last'.name \in DOMAIN get_scope(vm).variables

\* The let fails with the duplicate-variable error; the scope and the value
\* the name was bound to are as before.
DupLetRejected ==
    /\ result' = Err([err_type |-> [type |-> "VarNameDuplicate", name |-> last'.name],
                      context |-> [ctx |-> "Internal"]])
    /\ vm'.global_scope = vm.global_scope
    /\ vm'.stack_scope = vm.stack_scope
    /\ cells'[get_scope(vm).variables[last'.name]] = cells[get_scope(vm).variables[last'.name]]

\* The initializer of the let that ran last (the one expression it evaluates
\* at the top) evaluated without error.
InitializerOk(tr) ==
    \E k \in DOMAIN tr : tr[k].ev = "eval_ret" /\ tr[k].depth = 1 /\ tr[k].res.k = "Ok"

\* C5 as stated: with shadowing disabled, a let of a name already
\* bound in the current scope fails with the duplicate-variable error and
\* leaves the binding and its value unchanged.
C5_DupLetAlwaysRejected == [][DupLet => DupLetRejected]_vars

\* C5, amended: with shadowing disabled, a let of a name already bound in the
\* current scope whose initializer evaluates without error fails with the
\* duplicate-variable error and leaves the binding and its value unchanged.
C5_DupLetRejectedAfterInitializer ==
    [][(DupLet /\ InitializerOk(trace')) => DupLetRejected]_vars

\* C5 happens: `let x = 3;` ran where x was bound and was rejected.
C5_Witness ==
    /\ last.s = "VarDecl" /\ last.name = "x" /\ last.val = [e |-> "IntLiteral", int |-> 3]
    /\ result.k = "Err" /\ result.err.err_type.type = "VarNameDuplicate"
    /\ "x" \in DOMAIN get_scope(vm).variables

\* C6: a call of a user function with a number of arguments other than its
\* number of parameters fails with the argument-count error of its direction
\* (too few, too many), which carries the name of the function, the number of
\* parameters as expected and the number of arguments as got; no statement of
\* the body is executed.
C6_ArityMismatch ==
    \A j \in DOMAIN trace :
        trace[j].ev = "ret" =>
            LET call == trace[trace[j].from]
                expected == Len(call.args)
                actual == Len(call.params)
            IN actual # expected =>
                   /\ trace[j].res.k = "Err"
                   /\ trace[j].res.err.err_type =
                          [type |-> IF actual < expected THEN "NotEnoughArg" ELSE "TooMuchArgs",
                           expected |-> expected, got |-> actual]
                   /\ trace[j].res.err.context.ctx = "FuncCall"
                   /\ trace[j].res.err.context.func_name = call.name
                   /\ \A k \in trace[j].from..j : trace[k].ev # "exec"

\* C6 happens: add, of two parameters, has been called with one argument.
C6_Witness ==
    \E j \in DOMAIN trace :
        /\ trace[j].ev = "ret" /\ trace[j].name = "add"
        /\ Len(trace[trace[j].from].args) = 2
        /\ Len(trace[trace[j].from].params) = 1
        /\ trace[j].res.k = "Err"

\* Every initializer the instantiation that ended at event j evaluated, it
\* evaluated without error.
InitializersOk(j) ==
    \A k \in trace[j].from..j :
        (trace[k].ev = "eval_ret" /\ trace[k].depth = trace[j].depth) => trace[k].res.k = "Ok"

StructError(r, type, names) ==
    /\ r.k = "Err"
    /\ r.err.err_type.type = type
    /\ r.err.err_type.name \in names

\* C7 as stated: the instantiation of a declared struct succeeds
\* exactly when the names initialized are the names declared; a declared name
\* not initialized gives an error that names a missing field, an initialized
\* name not declared gives an error that names an unknown field.
C7_InstanceIffSameFields ==
    \A j \in DOMAIN trace :
        trace[j].ev = "struct_ret" =>
            LET e == trace[j] IN
            /\ IsOk(e.res) <=> e.init = e.declared
            /\ e.declared \ e.init # {}
                   => StructError(e.res, "MissingStructMember", e.declared \ e.init)
            /\ e.init \ e.declared # {}
                   => StructError(e.res, "UnknownStructMember", e.init \ e.declared)

\* C7, amended: when the initializers it evaluates evaluate without error,
\* the instantiation of a declared struct succeeds exactly when the names
\* initialized are the names declared; a declared name not initialized gives
\* an error that names a missing field; an initialized name not declared,
\* every declared name being initialized, gives an error that names an
\* unknown field.
C7_InstanceFields ==
    \A j \in DOMAIN trace :
        (trace[j].ev = "struct_ret" /\ InitializersOk(j)) =>
            LET e == trace[j] IN
            /\ IsOk(e.res) <=> e.init = e.declared
            /\ e.declared \ e.init # {}
                   => StructError(e.res, "MissingStructMember", e.declared \ e.init)
            /\ (e.declared \subseteq e.init /\ e.init \ e.declared # {})
                   => StructError(e.res, "UnknownStructMember", e.init \ e.declared)

\* C7 happens: an instantiation that initializes every declared field and one
\* more has been rejected.
C7_Witness ==
    \E j \in DOMAIN trace :
        /\ trace[j].ev = "struct_ret"
        /\ trace[j].declared = {"x", "y"} /\ trace[j].init = {"x", "y", "z"}
        /\ trace[j].res.k = "Err"

\* The value a variant stands for once the references in it are followed;
\* [t |-> "Cyclic"] when a reference leads back to itself.
RECURSIVE Resolve(_, _, _)
Resolve(cs, v, seen) ==
    IF v.t = "Ref"
    THEN IF v.r \in seen THEN [t |-> "Cyclic"] ELSE Resolve(cs, cs[v.r], seen \cup {v.r})
    ELSE IF v.t = "Array"
    THEN LET elems == [k \in 1..Len(v.a) |-> Resolve(cs, v.a[k], seen)] IN
         IF \E k \in 1..Len(v.a) : elems[k].t = "Cyclic"
         THEN [t |-> "Cyclic"]
         ELSE [t |-> "Array", a |-> elems]
    ELSE v

\* The structural ordering of two resolved values: "Less", "Equal", "Greater",
\* or "None" where there is none. Sequences (strings, arrays) are ordered by
\* the first position where they differ, then by length.
LengthOrd(m, n) == IF m < n THEN "Less" ELSE IF m = n THEN "Equal" ELSE "Greater"
FirstOf(S) == CHOOSE k \in S : \A m \in S : k <= m
RECURSIVE StructuralOrd(_, _)
StructuralOrd(a, b) ==
    IF a.t # b.t THEN "None"
    ELSE CASE a.t = "Unit" -> "Equal"
           [] a.t = "Bool" -> IF a.b = b.b THEN "Equal" ELSE IF b.b THEN "Less" ELSE "Greater"
           [] a.t = "Integer" -> LengthOrd(a.i, b.i)
           [] a.t = "String" ->
                LET differ == {k \in 1..Len(a.s) : k <= Len(b.s) /\ a.s[k] # b.s[k]} IN
                IF differ = {} THEN LengthOrd(Len(a.s), Len(b.s))
                ELSE LengthOrd(a.s[FirstOf(differ)], b.s[FirstOf(differ)])
           [] a.t = "Array" ->
                LET differ == {k \in 1..Len(a.a) :
                                  k <= Len(b.a) /\ StructuralOrd(a.a[k], b.a[k]) # "Equal"} IN
                IF differ = {} THEN LengthOrd(Len(a.a), Len(b.a))
                ELSE StructuralOrd(a.a[FirstOf(differ)], b.a[FirstOf(differ)])
           [] OTHER -> "None"

\* What a comparison operator answers for an ordering
Holds(op, ord) ==
    CASE op = "Equal" -> ord = "Equal"
      [] op = "NotEqual" -> ord # "Equal"
      [] op = "Less" -> ord = "Less"
      [] op = "LessOrEqual" -> ord \in {"Less", "Equal"}
      [] op = "Greater" -> ord = "Greater"
      [] op = "GreaterOrEqual" -> ord \in {"Greater", "Equal"}

InvalidComparison(l, r) ==
    Err([err_type |-> [type |-> "InvalidComparison", left_type |-> l.t, right_type |-> r.t],
         context |-> [ctx |-> "Internal"]])

\* C8 as stated: a comparison yields the Bool the structural
\* ordering dictates when its operands have the same tag (Unit, Bool, Integer,
\* String, Array, references followed), and fails with the invalid-comparison
\* error that names both types when the tags differ.
C8_SameTagYieldsBool ==
    \A j \in DOMAIN trace :
        trace[j].ev = "cmp_ret" =>
            LET l == Resolve(cells, trace[j].left, {})
                r == Resolve(cells, trace[j].right, {})
            IN (l.t # "Cyclic" /\ r.t # "Cyclic") =>
                   /\ (l.t = r.t /\ l.t \in {"Unit", "Bool", "Integer", "String", "Array"})
                          => (trace[j].res.k = "Ok" /\ trace[j].res.v.t = "Bool")
                   /\ l.t # r.t => trace[j].res = InvalidComparison(l, r)

\* C8, amended: for operands whose references resolve, a comparison yields the
\* Bool the structural ordering dictates when the ordering exists: the tags
\* are the same (Unit, Bool, Integer, String, Array) and, for arrays, so does
\* the ordering of the first elements that are not equal. Otherwise (tags that
\* differ, two structs, arrays whose first unequal elements have no ordering)
\* it fails with the invalid-comparison error that names both operand types;
\* it never yields a Bool for tags that differ.
C8_ComparisonFollowsOrdering ==
    \A j \in DOMAIN trace :
        trace[j].ev = "cmp_ret" =>
            LET l == Resolve(cells, trace[j].left, {})
                r == Resolve(cells, trace[j].right, {})
            IN (l.t # "Cyclic" /\ r.t # "Cyclic") =>
                   LET ord == StructuralOrd(l, r) IN
                   /\ ord # "None" => trace[j].res = Ok([t |-> "Bool", b |-> Holds(trace[j].op, ord)])
                   /\ ord = "None" => trace[j].res = InvalidComparison(l, r)
                   /\ l.t # r.t => trace[j].res.k = "Err"

\* C8 happens: two arrays have been compared and there was no ordering.
C8_Witness ==
    \E j \in DOMAIN trace :
        /\ trace[j].ev = "cmp_ret"
        /\ trace[j].left.t = "Array" /\ trace[j].right.t = "Array"
        /\ trace[j].res.k = "Err" /\ trace[j].res.err.err_type.type = "InvalidComparison"

\* C9: `false && right` and `true || right` yield the left value and do not
\* evaluate right; in the two other cases right is evaluated exactly once,
\* after left.
C9_ShortCircuit ==
    \A j \in DOMAIN trace :
        trace[j].ev = "bool_ret" =>
            LET e == trace[j]
                evaluated == EvalsAt(e.from, j, e.depth)
                short == (e.op = "And" /\ ~e.left_value) \/ (e.op = "Or" /\ e.left_value)
            IN /\ Len(evaluated) = (IF short THEN 1 ELSE 2)
               /\ evaluated[1].expr = e.left
               /\ short => e.res = Ok([t |-> "Bool", b |-> e.left_value])
               /\ ~short => evaluated[2].expr = e.right

\* C9 happens: `false && nope()` has yielded false without an error of nope.
C9_Witness ==
    /\ last.s = "ExprStatement" /\ last.expr.e = "Binary" /\ last.expr.class = "Bool"
    /\ last.expr.op = "And" /\ last.expr.left = [e |-> "BoolLiteral", bool |-> FALSE]
    /\ last.expr.right.e = "FuncCall"
    /\ result = Ok(<<[t |-> "Bool", b |-> FALSE]>>)

\* C10: exec_package returns Some(value) exactly when the statement is an
\* expression statement that evaluates without error while no scope of a call
\* or of a block is current, and the value is that of the expression; in
\* every other case it returns None or the error.
C10_SomeOnlyAtTopLevel ==
    \A j \in DOMAIN trace :
        trace[j].ev = "exec_ret" =>
            LET e == trace[j]
                some == e.res.k = "Ok" /\ is_some(e.res.v)
            IN /\ some <=> (e.s = "ExprStatement" /\ is_some(e.value) /\ ~e.scope_before)
               /\ some => e.res.v = e.value
               /\ ~some => (e.res = Ok(<<>>) \/ e.res.k \in {"Err", "Abort"})

\* C10 happens: an expression statement inside a call has evaluated and given
\* None, and the expression statement at the top has given Some.
C10_Witness ==
    /\ \E j \in DOMAIN trace :
           /\ trace[j].ev = "exec_ret" /\ trace[j].s = "ExprStatement"
           /\ trace[j].scope_before /\ is_some(trace[j].value)
           /\ trace[j].res = Ok(<<>>)
    /\ trace[Len(trace)].ev = "exec_ret" /\ ~trace[Len(trace)].scope_before
    /\ result.k = "Ok" /\ is_some(result.v)

C12_BuiltinsShadowUserFunctions ==
    /\ \A j \in DOMAIN trace :
           trace[j].ev = "call" => trace[j].name \notin vm.builtins
    /\ \A j \in DOMAIN trace :
           trace[j].ev = "builtin_ret" =>
               /\ trace[j].post = trace[j].pre
               /\ \A k \in trace[j].from..j : trace[k].ev # "call"
    /\ \A j \in DOMAIN trace :
           (trace[j].ev = "eval" /\ trace[j].expr.e = "FuncCall"
                /\ trace[j].expr.func_expr.e = "Identifier"
                /\ trace[j].expr.func_expr.name \in vm.builtins)
               => \A k \in DOMAIN trace :
                      (k > j /\ trace[k].ev \in {"lookup", "call"} /\ trace[k].depth = trace[j].depth + 1)
                          => (trace[k].ev = "lookup" /\ trace[k].kind # "functions")

\* println is called where the current scope declares a function println.
C12_Witness ==
    \E j \in DOMAIN trace :
        /\ trace[j].ev = "builtin_ret" /\ trace[j].declared
        /\ trace[j].name = "println" /\ IsOk(trace[j].res)

\* C13: every statement the driver executes returns a value or an error: no
\* evaluation blocks on a lock for ever or recurses without end.
C13_ExecPackageReturns ==
    result.k = "Abort" => result.why \notin {"deadlock", "stack overflow"}

\* C14: in batch mode no statement is parsed or executed after the first
\* error of the parser or of the VM: once the last iteration of the loop has
\* ended in an error, the loop has ended.
C14_BatchHaltsAtFirstError ==
    (~interactive /\ result.k = "Err") => halted

\* The index in the raw literal (from 0, the opening quote) of the backslash
\* of the first escape whose character is not recognized, from the index i
\* on; -1 when every escape is recognized.
RECURSIVE first_invalid_escape(_, _)
first_invalid_escape(raw, i) ==
    IF i + 1 >= Len(raw) - 1 THEN -1
    ELSE IF raw[i + 1] # BACKSLASH THEN first_invalid_escape(raw, i + 1)
    ELSE IF raw[i + 2] \in {110, 114, 116, BACKSLASH, 48, 39, QUOTE}
    THEN first_invalid_escape(raw, i + 2)
    ELSE i

\* C15: a string literal with an escape that is not recognized evaluates to
\* the invalid-escape error that carries the raw literal and the index of the
\* offending escape in it: index 1 for the literal "\q".
C15_InvalidEscapeIndex ==
    (last.s = "ExprStatement" /\ last.expr.e = "StringLiteral"
        /\ first_invalid_escape(last.expr.raw, 1) # -1)
        => result = Err(invalid_escape(last.expr.raw,
                                       first_invalid_escape(last.expr.raw, 1)))

\* The text without the white space it begins with
RECURSIVE SkipSpace(_)
SkipSpace(text) ==
    IF text # <<>> /\ is_whitespace(Head(text)) THEN SkipSpace(Tail(text)) ELSE text

\* The longest run of letters, digits and underscores the text begins with
RECURSIVE WordChars(_)
WordChars(text) ==
    IF text # <<>> /\ (is_alphanumeric(Head(text)) \/ Head(text) = 95)
    THEN <<Head(text)>> \o WordChars(Tail(text))
    ELSE <<>>

\* The word the text begins with: a letter, an underscore or an @, then
\* letters, digits and underscores; <<>> when it begins with no word
WordAt(text) ==
    IF text # <<>> /\ (is_alphabetic(Head(text)) \/ Head(text) \in {95, 64})
    THEN <<Head(text)>> \o WordChars(Tail(text))
    ELSE <<>>

\* The token type of a word by the rule of C17; "Error" for a word that
\* begins with @ and is neither @include nor @exec
WordClass(w) ==
    IF w \in {<<108, 101, 116>>, <<102, 110>>, <<105, 102>>,          \* let fn if
              <<115, 116, 114, 117, 99, 116>>} THEN "Keyword"        \* struct
    ELSE IF w \in {<<116, 114, 117, 101>>, <<102, 97, 108, 115, 101>>} THEN "BoolLiteral"
    ELSE IF w \in {<<64, 105, 110, 99, 108, 117, 100, 101>>, <<64, 101, 120, 101, 99>>}
    THEN "SpecialInstruction"
    ELSE IF w[1] = 64 THEN "Error"
    ELSE "Identifier"

\* C17: when the text at which next_token starts begins (after white space)
\* with a word, the token returned has the text of the word and is a Keyword
\* for let, fn, if and struct, a BoolLiteral for true and false, a
\* SpecialInstruction for @include and @exec, and an Identifier for any other
\* word that does not begin with @; any other word that begins with @ is
\* rejected with the unknown-special-instruction error.
C17_WordClassification ==
    \A j \in DOMAIN trace :
        (trace[j].ev = "next_token" /\ WordAt(SkipSpace(trace[j].text)) # <<>>) =>
            LET w == WordAt(SkipSpace(trace[j].text))
                res == trace[j].res
            IN IF WordClass(w) = "Error"
               THEN ~IsOk(res) /\ res.err.type = "UnknownSpecialInstruction"
                               /\ res.err.word = w
               ELSE IsOk(res) /\ res.v.content = w /\ res.v.token_type = WordClass(w)

\* Whether the text begins with the characters of op and goes on with white
\* space, with a letter, or not at all
StartsWithOperator(text, op) ==
    /\ Len(text) >= Len(op)
    /\ SubSeq(text, 1, Len(op)) = op
    /\ Len(text) > Len(op) =>
           (is_whitespace(text[Len(op) + 1]) \/ is_alphabetic(text[Len(op) + 1]))

\* C18: when the text at which next_token starts begins (after white space)
\* with an operator of the grammar, the lexer does not reject its first
\* character as invalid and, unless the operator is the comment marker, the
\* token returned is an Operator whose text is that operator.
C18_OperatorsAccepted ==
    \A j \in DOMAIN trace : \A op \in GrammarOperators :
        (trace[j].ev = "next_token" /\ StartsWithOperator(SkipSpace(trace[j].text), op)) =>
            LET res == trace[j].res IN
            /\ ~(~IsOk(res) /\ res.err.type = "InvalidCharacter" /\ res.err.char = op[1])
            /\ op # <<35>> => (IsOk(res) /\ res.v.token_type = "Operator"
                                         /\ res.v.content = op)

\* C16: for every integer n of the range of the machine integer, the input
\* `n;` (the literal of n, a minus sign first when n is negative) is parsed
\* as an expression statement whose evaluation by a new VM yields Integer(n).
C16_IntegerLiteralRoundTrip ==
    \A j \in DOMAIN trace : \A n \in IntMin..IntMax :
        (trace[j].ev = "next_package" /\ trace[j].text = decimal(n) \o <<59>>) =>
            /\ IsOk(trace[j].res)
            /\ is_some(trace[j].res.v)
            /\ unwrap(trace[j].res.v).s = "ExprStatement"
            /\ exec_package([vm |-> Vm_new, cells |-> <<>>, out |-> <<>>, trace |-> <<>>,
                             depth |-> 0, order |-> <<>>, overflow_checks |-> TRUE],
                            unwrap(trace[j].res.v)).r = Ok(Some(Integer(n)))

\* The variable y is bound to a cell that holds a reference to the cell the
\* variable x is bound to, in the store cs of the Vm v.
AliasOf(v, cs, y, x) ==
    LET variables == get_scope(v).variables IN
    /\ y \in DOMAIN variables /\ x \in DOMAIN variables /\ x # y
    /\ cs[variables[y]] = Ref(variables[x])

\* What a read of the variable y yields once its references are followed
ReadOf(v, cs, y) == Resolve(cs, Ref(get_scope(v).variables[y]), {})

\* The last statement was a successful `let y = x;`: the cell of y holds a
\* reference to the cell of x.
C19_DeclStoresReference ==
    (/\ last.s = "VarDecl" /\ last.val.e = "Identifier" /\ last.name # last.val.name
     /\ IsOk(result))
        => AliasOf(vm, cells, last.name, last.val.name)

\* One statement executed while y holds a reference to the cell of x: after a
\* successful `x = v;` a read of y yields v; after a successful `y = w;` the
\* cell of y holds w and the cell of x holds what it held; a successful `y;`
\* evaluates to a reference to the cell of y, which leads to what x holds.
C19_WritesThroughAlias ==
    \A y \in {"x", "y", "z"}, x \in {"x", "y", "z"} :
        (AliasOf(vm, cells, y, x) /\ IsOk(result')) =>
            LET variables == get_scope(vm).variables IN
            /\ (StoresLiteral(last') /\ last'.s = "Assign" /\ VarName(last') = x) =>
                   /\ ReadOf(vm', cells', y) = LitVariant(last'.val)
                   /\ AliasOf(vm', cells', y, x)
            /\ (StoresLiteral(last') /\ last'.s = "Assign" /\ VarName(last') = y) =>
                   /\ cells'[variables[x]] = cells[variables[x]]
                   /\ cells'[variables[y]] = LitVariant(last'.val)
                   /\ ReadOf(vm', cells', x) = ReadOf(vm, cells, x)
            /\ (last'.s = "ExprStatement" /\ last'.expr = Identifier(y)) =>
                   /\ result' = Ok(Some(Ref(variables[y])))
                   /\ Resolve(cells', unwrap(result'.v), {}) = ReadOf(vm, cells, x)

\* C19: after `let y = x;` with x a declared variable, the cell of y holds a
\* reference to the cell of x: an assignment `x = v` that follows is seen by
\* the next read of y, and an assignment `y = w` replaces the content of the
\* cell of y only and leaves the value of x as it was.
C19_AliasSharesCell == []C19_DeclStoresReference /\ [][C19_WritesThroughAlias]_vars

\* C19 happens: after `let x = 1; let y = x;` the statement `x = 2;` has been
\* executed, and y leads to the 2 that x holds.
C19_Witness ==
    /\ last = Assign(Loc(3), Identifier("x"), IntLiteral(2))
    /\ IsOk(result)
    /\ AliasOf(vm, cells, "y", "x")
    /\ cells[get_scope(vm).variables["x"]] = Integer(2)
    /\ ReadOf(vm, cells, "y") = Integer(2)

\* What the operand e of the last statement stands for: the variant of a
\* literal, or what the variable it names leads to; [t |-> "None"] otherwise.
OperandValue(e) ==
    IF IsLiteral(e) THEN LitVariant(e)
    ELSE IF e.e = "Identifier" /\ e.name \in DOMAIN get_scope(vm).variables
    THEN ReadOf(vm, cells, e.name)
    ELSE [t |-> "None"]

\* C20: an operation that requires an operand of a type accepts a variable
\* whose cell holds a value of that type.  A numeric operator on operands that
\* are Integer literals or variables holding an Integer yields the Integer of
\* the operation; `&&` and `||` on operands that are Bool literals or
\* variables holding a Bool yield the Bool of the operation; an if whose
\* condition is a variable holding a Bool runs without error.
C20_TypedOperandsAcceptReferences ==
    /\ (/\ last.s = "ExprStatement" /\ last.expr.e = "Binary"
        /\ last.expr.class = "Numerical" /\ last.expr.op \in {"Add", "Mul"}
        /\ OperandValue(last.expr.left).t = "Integer"
        /\ OperandValue(last.expr.right).t = "Integer")
           => LET l == OperandValue(last.expr.left).i
                  r == OperandValue(last.expr.right).i
              IN result = Ok(Some(Integer(IF last.expr.op = "Add" THEN l + r ELSE l * r)))
    /\ (/\ last.s = "ExprStatement" /\ last.expr.e = "Binary" /\ last.expr.class = "Bool"
        /\ OperandValue(last.expr.left).t = "Bool"
        /\ OperandValue(last.expr.right).t = "Bool")
           => LET l == OperandValue(last.expr.left).b
                  r == OperandValue(last.expr.right).b
              IN result = Ok(Some(Bool(IF last.expr.op = "And" THEN l /\ r ELSE l \/ r)))
    /\ (last.s = "If" /\ OperandValue(last.val).t = "Bool") => result = OkUnit

\* C21: a numeric operator on Integer operands returns to its caller with an
\* Integer or with an error of the VM: a statement `let q = a op b;` on
\* integers, division by zero and results out of the range included, never
\* ends the interpreter.
C21_NumericOperatorsReturn ==
    (/\ last.s = "VarDecl" /\ last.val.e = "Binary" /\ last.val.class = "Numerical")
        => result.k \in {"Ok", "Err"}

\* C22: for every kind of primary expression (an integer, string or bool
\* literal, an array literal, an identifier, a function call), a primary
\* followed by a binary operator is parsed as a Binary node of the primary,
\* the operator and the expression that follows: the statement
\* `x = primary op right;` is an assignment of that Binary node to x.
C22_PrimaryThenOperatorIsBinary ==
    \A h \in DOMAIN trace :
        \A i \in DOMAIN Primaries, j \in DOMAIN BinaryOps, k \in DOMAIN RightExprs :
            (/\ trace[h].ev = "next_package"
             /\ trace[h].text = BinaryText(Primaries[i], BinaryOps[j], RightExprs[k])
             /\ is_none(trace[h].lookahead_token)) =>
                /\ IsOk(trace[h].res)
                /\ is_some(trace[h].res.v)
                /\ unwrap(trace[h].res.v).s = "VarSet"
                /\ unwrap(trace[h].res.v).name = <<120>>
                /\ unwrap(trace[h].res.v).val =
                       BinaryExpr(Primaries[i].expr, BinaryOps[j].class, BinaryOps[j].op,
                                  RightExprs[k].expr)

\* C23: an if-statement whose condition is or ends with a bare identifier is
\* parsed as an If node of that condition and of the block in braces that
\* follows it: `if cond { f(); }` is the If of cond and of the call f().
C23_IfOnIdentifierTakesBlock ==
    \A h \in DOMAIN trace : \A i \in DOMAIN Conditions :
        (/\ trace[h].ev = "next_package"
         /\ trace[h].text = IfText(Conditions[i])
         /\ is_none(trace[h].lookahead_token)) =>
            /\ IsOk(trace[h].res)
            /\ is_some(trace[h].res.v)
            /\ unwrap(trace[h].res.v).s = "If"
            /\ unwrap(trace[h].res.v).val = Conditions[i].expr
            /\ Len(unwrap(trace[h].res.v).statements) = 1
            /\ unwrap(trace[h].res.v).statements[1].s = "FuncCall"
            /\ unwrap(trace[h].res.v).statements[1].name = <<102>>

\* The tokens the lexer lx has yet to return, in order, within `fuel` calls
RECURSIVE TokensOf(_, _)
TokensOf(lx, fuel) ==
    IF fuel = 0 THEN <<>>
    ELSE LET Returned(o) ==
                 IF IsOk(o.r) THEN <<o.r.v>> \o TokensOf(o.lx, fuel - 1)
                 ELSE IF o.r.err.type = "EndOfFile" THEN <<>>
                 ELSE TokensOf(o.lx, fuel - 1)
         IN Returned(Lexer_next_token(lx))
TokensLeft(p) == TokensOf(p.lexer, Len(unread(p.lexer)) + 2)

\* The n-th call of the history is an advance that moves the cursor: it does
\* not follow a retain, and it returns without an error of the lexer
Moves(n) ==
    /\ trace[n].op = "advance"
    /\ ~trace[n].p0.retain_last_token
    /\ IsOk(trace[n].res)
\* The number of tokens the cursor has moved over in the first n calls
Moved(n) == Cardinality({m \in 1..n : Moves(m) /\ is_some(trace[m].p1.current_token)})

\* C24: over any sequence of peek, advance and retain, the successive
\* current tokens are the tokens of the lexer in order, none skipped and none
\* twice; the advance after a retain leaves the cursor as it is and reads
\* nothing; peek does not change the current token, and peeks that follow one
\* another return the same token; the lexer is never more than one token
\* ahead of the current token.
C24_CursorFollowsLexer ==
    \A n \in DOMAIN trace :
        LET e == trace[n]
            tokens == TokensLeft(trace[1].p0)
            read == Len(tokens) - Len(TokensLeft(e.p1))
        IN /\ Moves(n) =>
                 IF Moved(n - 1) < Len(tokens)
                 THEN e.p1.current_token = Some(tokens[Moved(n - 1) + 1])
                 ELSE e.p1.current_token = None
           /\ (e.op = "advance" /\ ~Moves(n)) =>
                 e.p1.current_token = e.p0.current_token
           /\ (e.op = "advance" /\ e.p0.retain_last_token) =>
                 /\ e.p1.lexer = e.p0.lexer
                 /\ e.p1.lookahead_token = e.p0.lookahead_token
                 /\ ~e.p1.retain_last_token
           /\ e.op \in {"peek", "retain"} => e.p1.current_token = e.p0.current_token
           /\ (e.op = "peek" /\ IsOk(e.res)) =>
                 e.res.v = (IF Moved(n) < Len(tokens) THEN Some(tokens[Moved(n) + 1])
                            ELSE None)
           /\ (n > 1 /\ e.op = "peek" /\ trace[n - 1].op = "peek"
                     /\ IsOk(e.res) /\ IsOk(trace[n - 1].res)) =>
                 e.res = trace[n - 1].res
           /\ read >= Moved(n) /\ read <= Moved(n) + 1
           /\ read = Moved(n) + (IF is_some(e.p1.lookahead_token) THEN 1 ELSE 0)

\* A retain and the advance after it on a current token, then an advance that
\* moves to the next token, after two peeks in a row
C24_Witness ==
    \E n \in DOMAIN trace :
        /\ n >= 4
        /\ trace[n].op = "advance" /\ Moves(n) /\ Moved(n) = 2
        /\ trace[n - 1].op = "advance" /\ trace[n - 1].p0.retain_last_token
        /\ is_some(trace[n - 1].p0.current_token)
        /\ trace[n - 2].op = "retain"
        /\ \E m \in 2..(n - 3) : trace[m].op = "peek" /\ trace[m - 1].op = "peek"

\* The longest run of digits the text begins with
RECURSIVE DigitsAt(_)
DigitsAt(text) ==
    IF text # <<>> /\ is_numeric(Head(text)) THEN <<Head(text)>> \o DigitsAt(Tail(text))
    ELSE <<>>

\* The text begins with a number that runs into a letter or an underscore
NumberThenLetter(text) ==
    LET n == Len(DigitsAt(text)) IN
    /\ n > 0 /\ Len(text) > n
    /\ (is_alphabetic(text[n + 1]) \/ text[n + 1] = 95)

\* C25: when the text at which next_token starts begins (after white space)
\* with digits that run into a letter or an underscore, next_token returns the
\* invalid-character error for that character and no IntegerLiteral token.
C25_LetterInNumberRejected ==
    \A h \in DOMAIN trace :
        (trace[h].ev = "next_token" /\ NumberThenLetter(SkipSpace(trace[h].text))) =>
            LET text == SkipSpace(trace[h].text)
                res == trace[h].res
            IN /\ ~IsOk(res)
               /\ res.err.type = "InvalidCharacter"
               /\ res.err.char = text[Len(DigitsAt(text)) + 1]

\* The index in the text of the first double quote after the index i that no
\* backslash escapes (escaped tells whether a backslash escapes text[i]);
\* 0 when there is none
RECURSIVE ClosingQuote(_, _, _)
ClosingQuote(text, i, escaped) ==
    IF i > Len(text) THEN 0
    ELSE IF escaped THEN ClosingQuote(text, i + 1, FALSE)
    ELSE IF text[i] = BACKSLASH THEN ClosingQuote(text, i + 1, TRUE)
    ELSE IF text[i] = QUOTE THEN i
    ELSE ClosingQuote(text, i + 1, FALSE)

\* The text begins with a string literal that holds a double quote after a
\* backslash no backslash escapes
HasEscapedQuote(text) ==
    /\ text # <<>> /\ text[1] = QUOTE
    /\ ClosingQuote(text, 2, FALSE) > 0
    /\ \E i \in 2..(ClosingQuote(text, 2, FALSE) - 1) :
           /\ text[i] = QUOTE
           /\ ClosingQuote(text, i - 1, FALSE) > i

\* C26: when the text at which next_token starts begins (after white space)
\* with a string literal that holds an escaped double quote, the token
\* returned is a StringLiteral whose text goes from the opening quote to the
\* first double quote that is not escaped, quotes and backslashes included.
C26_EscapedQuoteStaysInLiteral ==
    \A h \in DOMAIN trace :
        (trace[h].ev = "next_token" /\ HasEscapedQuote(SkipSpace(trace[h].text))) =>
            LET text == SkipSpace(trace[h].text)
                res == trace[h].res
            IN /\ IsOk(res)
               /\ res.v.token_type = "StringLiteral"
               /\ res.v.content = SubSeq(text, 1, ClosingQuote(text, 2, FALSE))

\* C27: every StringLiteral token the lexer returns has at least two
\* characters, the first and the last of which are double quotes, so that the
\* construction of the string by the VM, which strips both, does not fail on
\* the slice.
C27_StringLiteralIsQuoted ==
    \A h \in DOMAIN trace :
        (trace[h].ev = "next_token" /\ IsOk(trace[h].res)
                                    /\ trace[h].res.v.token_type = "StringLiteral") =>
            LET content == trace[h].res.v.content IN
            /\ Len(content) >= 2
            /\ content[1] = QUOTE
            /\ content[Len(content)] = QUOTE
            /\ new_from_string_expr(content).k # "Abort"

\* The text without its comments: the characters from a `#` to the end of
\* its line are left out, the line feed is kept
RECURSIVE StripComments(_, _)
StripComments(text, in_comment) ==
    IF text = <<>> THEN <<>>
    ELSE IF Head(text) = 10 THEN <<10>> \o StripComments(Tail(text), FALSE)
    ELSE IF in_comment \/ Head(text) = 35 THEN StripComments(Tail(text), TRUE)
    ELSE <<Head(text)>> \o StripComments(Tail(text), FALSE)

\* What a call of next_token returned, without the location
Outcome(r) ==
    IF IsOk(r) THEN [k |-> "Ok", token_type |-> r.v.token_type, content |-> r.v.content]
    ELSE [k |-> "Err", type |-> r.err.type]

\* What the calls of next_token return on the lexer lx up to the end of the
\* input, within `fuel` calls
RECURSIVE OutcomesOf(_, _)
OutcomesOf(lx, fuel) ==
    IF fuel = 0 THEN <<>>
    ELSE LET Returned(o) ==
                 IF ~IsOk(o.r) /\ o.r.err.type = "EndOfFile" THEN <<Outcome(o.r)>>
                 ELSE <<Outcome(o.r)>> \o OutcomesOf(o.lx, fuel - 1)
         IN Returned(Lexer_next_token(lx))

\* C28: comments never appear in the token stream.  No token has the text
\* `#`; and on an input without string literals, what the calls of next_token
\* return up to the end of the input is what they return on the input
\* without its comments: no token is made of characters of a comment, and
\* no character after a comment's line feed is skipped.
C28_CommentsLeaveNoToken ==
    /\ \A h \in DOMAIN trace :
           (trace[h].ev = "next_token" /\ IsOk(trace[h].res)) =>
               trace[h].res.v.content # <<35>>
    /\ (/\ halted /\ trace # <<>> /\ trace[1].ev = "next_token"
        /\ \A i \in DOMAIN trace[1].text : trace[1].text[i] # QUOTE) =>
           [h \in DOMAIN trace |-> Outcome(trace[h].res)] =
               OutcomesOf(Lexer_new(StripComments(trace[1].text, FALSE)),
                          Len(trace[1].text) + 2)

\* The statement that is being executed at the index `at` of the history:
\* the index of the last exec event before it that has not returned by then
OpenExecs(at) ==
    {k \in 1..(at - 1) :
        /\ trace[k].ev = "exec"
        /\ \A m \in (k + 1)..(at - 1) :
               ~(trace[m].ev = "exec_ret" /\ trace[m].depth = trace[k].depth)}
CallSite(at) == trace[CHOOSE k \in OpenExecs(at) : \A h \in OpenExecs(at) : h <= k].location

\* C29: the context of the error of a call of a user function with the wrong
\* number of arguments carries the location of the call site, which is the
\* location of the statement that was being executed when the call was made.
C29_ArityErrorCarriesCallSite ==
    \A j \in DOMAIN trace :
        (/\ trace[j].ev = "ret"
         /\ Len(trace[trace[j].from].params) # Len(trace[trace[j].from].args)) =>
            /\ trace[j].res.k = "Err"
            /\ trace[j].res.err.context.ctx = "FuncCall"
            /\ trace[j].res.err.context.location = CallSite(trace[j].from)

\* C30: a call of typename or of env with n arguments, n other than 1, fails
\* with an argument-count error that carries the name of the function, the
\* expected count 1 and the count n of the call: too few for n = 0, too many
\* for n > 1.
C30_BuiltinArityError ==
    (/\ last.s = "ExprStatement" /\ last.expr.e = "FuncCall"
     /\ last.expr.func_expr.e = "Identifier"
     /\ last.expr.func_expr.name \in {"typename", "env"}
     /\ Len(last.expr.args) # 1) =>
        /\ result.k = "Err"
        /\ result.err.err_type =
               [type |-> IF Len(last.expr.args) = 0 THEN "NotEnoughArg" ELSE "TooMuchArgs",
                func_name |-> last.expr.func_expr.name,
                expected |-> 1, got |-> Len(last.expr.args)]

====
